---- MODULE Spec2Model ----
(***************************************************************************)
(* Model of QCLight: the bit-index iterators of qclight/utils and the      *)
(* circuit/state engine of qclight/circuit/circuit.py.                     *)
(*                                                                         *)
(* Numbers: Python integers are unbounded, so bit arithmetic is done on    *)
(* TLA+ integers.  Amplitudes are reals of the form p * (1/sqrt 2)^e; a    *)
(* vector or matrix is kept as integer entries with one shared exponent.   *)
(* The arithmetic is exact: the rounding of float64 is not modelled.       *)
(*                                                                         *)
(* SpecUtil runs one generator call of range_fixed_bits or                 *)
(* range_fixed_bits_switch; Spec runs one QCLCircuit object from before    *)
(* its construction; SpecApp runs one object of QCLCircuit or of a derived *)
(* class with the compound gates or_ and swap; SpecCounts runs counts     *)
(* with a sub-register list, SpecCountsAll counts over all qubits;         *)
(* SpecGates runs every gate method of one circuit, SpecSetN the public n  *)
(* setter, SpecMcx the multi-controlled X; SpecExtract runs one call of    *)
(* extract_bits; SpecObjects runs two circuits as the array objects they   *)
(* hold; SpecProtocol runs a Protocol and its Agents.                      *)
(***************************************************************************)
EXTENDS Integers, Sequences, FiniteSets, TLC

\* ------------------------------------------------------------------ bounds
\* largest register width / n_bits explored
MaxBits == 3
\* how far outside [0, n) a position may lie (below 0 and above MaxBits - 1)
PosSlack == 1

\* longest gate list explored
MaxGates == 2
\* longest string given to _initialize_state
MaxStr == 2
\* longest amplitude list given to _initialize_state
MaxList == 3
\* longest position list given to x and h
MaxPosList == 2
\* largest operand given to BooleanInnerProductCircuit
MaxOperand == 3
\* numbers given to extract_bits are 0..MaxNumber
MaxNumber == 15
\* position lists given to extract_bits have at most MaxExtract entries
MaxExtract == 3
\* an agent's callback list for one event has at most MaxCallbacks entries
MaxCallbacks == 1

Positions == (0 - PosSlack)..(MaxBits + PosSlack - 1)

\* ------------------------------------------------------- integer bit tricks
RECURSIVE BitAnd(_, _)
\* a & b on non-negative integers
BitAnd(a, b) ==
    IF a = 0 \/ b = 0 THEN 0
    ELSE ((a % 2) * (b % 2)) + 2 * BitAnd(a \div 2, b \div 2)

RECURSIVE BitOr(_, _)
\* a | b on non-negative integers
BitOr(a, b) ==
    IF a = 0 THEN b
    ELSE IF b = 0 THEN a
    ELSE (IF (a % 2) + (b % 2) > 0 THEN 1 ELSE 0) + 2 * BitOr(a \div 2, b \div 2)

\* a & ~m on non-negative integers (~m is the infinite two's complement of m)
AndNot(a, m) == a - BitAnd(a, m)

\* 1 << e, defined by Python for e >= 0 only
Shl1(e) == 2 ^ e

\* a >> k for a, k >= 0
Shr(a, k) == a \div (2 ^ k)

RECURSIVE SumShifts(_, _)
\* sum(1 << (n_bits - i - 1) for i in S), S a set
SumShifts(n_bits, S) ==
    IF S = {} THEN 0
    ELSE LET i == CHOOSE x \in S : TRUE
         IN  Shl1(n_bits - i - 1) + SumShifts(n_bits, S \ {i})

\* big-endian bit `pos` of `idx` in a register of n_bits bits
BitBE(idx, n_bits, pos) == (idx \div (2 ^ (n_bits - pos - 1))) % 2

\* ---------------------------------------------------------------- variables
VARIABLES
    gen,        \* the running generator of range_fixed_bits / range_fixed_bits_switch
    alive,      \* a QCLCircuit object exists (its __init__ has returned)
    n,          \* QCLCircuit._n
    state,      \* QCLCircuit._state
    gates,      \* QCLCircuit.gates
    result,     \* QCLCircuit._result: <<>> is None, <<v>> is the vector v
    identity,   \* QCLCircuit._identity
    last,       \* the last call on the circuit: its name and the exception it raised
    sim,        \* history: the classical register value after the calls made so
                \* far, each taken as the bit operation its documentation gives;
                \* -1 once a call is not such an operation on a basis state
    obj,        \* the class of the object and the arguments of its constructor
    ret,        \* what the last call returned (inner_product) or printed
                \* (counts); nothing for every other call
    ext,        \* a call of extract_bits: its arguments and what it returned
    heap,       \* two QCLCircuit objects as the array objects their fields refer to
    prot        \* a Protocol and the Agent objects: _running, _agents, _events,
                \* each agent's _events, and the last call with what it raised

\* the state outside the generator and the one circuit object
restVars == <<ext, heap, prot>>
\* the one circuit object
objVars == <<alive, n, state, gates, result, identity, last, sim, obj, ret>>
\* what the methods of the circuit leave alone
genVars == <<gen, restVars>>
appVars == <<obj, ret>>
\* what the generators leave alone
circVars == <<objVars, restVars>>
vars == <<gen, alive, n, state, gates, result, identity, last, sim, obj, ret, ext, heap, prot>>

\* ------------------------------------------------------- vectors and matrices
\* A vector [e, v] stands for the real vector v * (1/sqrt 2)^e, a matrix [e, m]
\* (m a sequence of rows) for m * (1/sqrt 2)^e.

RECURSIVE SumRange(_, _, _)
\* f[lo] + ... + f[hi], by halves
SumRange(f, lo, hi) ==
    IF lo > hi THEN 0
    ELSE IF lo = hi THEN f[lo]
    ELSE LET mid == (lo + hi) \div 2
         IN  SumRange(f, lo, mid) + SumRange(f, mid + 1, hi)

\* f[1] + ... + f[k]
SumTo(f, k) == SumRange(f, 1, k)

AllEven(v) == \A i \in 1..Len(v) : v[i] % 2 = 0
AllZero(v) == \A i \in 1..Len(v) : v[i] = 0

RECURSIVE Canon(_)
\* the one representation of a real vector: 2 * (1/sqrt 2)^2 = 1
Canon(x) ==
    IF AllZero(x.v) THEN [e |-> 0, v |-> x.v]
    ELSE IF x.e >= 2 /\ AllEven(x.v)
         THEN Canon([e |-> x.e - 2, v |-> [i \in 1..Len(x.v) |-> x.v[i] \div 2]])
         ELSE x

\* a variant of BasisVec that takes pos as a 1-based index
BasisVecOneBased(size, pos) == [e |-> 0, v |-> [i \in 1..size |-> IF i = pos THEN 1 ELSE 0]]

\* np.zeros(size) with entry pos (0-based) set to 1
BasisVec(size, pos) == [e |-> 0, v |-> [i \in 1..size |-> IF i = pos + 1 THEN 1 ELSE 0]]

\* the vector with no entries: the value of a field that was never assigned
NoVec == [e |-> 0, v |-> <<>>]
NoMat == [e |-> 0, m |-> <<>>]

\* a variant of GateX whose lower left entry is 0
GateXUpperOnly == [e |-> 0, m |-> <<<<1, 1>>, <<0, 1>>>>]

\* a variant of GateH without the factor 1/sqrt 2
GateHUnnormalized == [e |-> 0, m |-> <<<<1, 1>>, <<1, 0 - 1>>>>]

\* Gate.X, Gate.Z, Gate.H, Gate.I
GateX == [e |-> 0, m |-> <<<<0, 1>>, <<1, 0>>>>]
GateZ == [e |-> 0, m |-> <<<<1, 0>>, <<0, 0 - 1>>>>]
GateH == [e |-> 1, m |-> <<<<1, 1>>, <<1, 0 - 1>>>>]
GateI == [e |-> 0, m |-> <<<<1, 0>>, <<0, 1>>>>]

\* np.kron(a, b) of two square matrices
Kron(a, b) ==
    LET ra == Len(a.m)
        rb == Len(b.m)
    IN  [e |-> a.e + b.e,
         m |-> [i \in 1..(ra * rb) |-> [j \in 1..(ra * rb) |->
                  a.m[((i - 1) \div rb) + 1][((j - 1) \div rb) + 1]
                    * b.m[((i - 1) % rb) + 1][((j - 1) % rb) + 1]]]]

RECURSIVE TpFold(_, _, _)
\* the loop of tp: v = np.kron(v, gate) for gate in gates[k:]
TpFold(v, gs, k) == IF k > Len(gs) THEN v ELSE TpFold(Kron(v, gs[k]), gs, k + 1)

\* QCLCircuit.tp on a non-empty list (the empty list raises ValueError)
Tp(gs) == TpFold(gs[1], gs, 2)

\* np.matmul(vec, mat) of a row vector and a square matrix of matching size
VecMat(x, g) ==
    Canon([e |-> x.e + g.e,
           v |-> [j \in 1..Len(x.v) |->
                    SumTo([i \in 1..Len(x.v) |-> x.v[i] * g.m[i][j]], Len(x.v))]])

\* the argument of _initialize_state: a str (a sequence of characters), a list
\* of amplitudes or an int; the two fields not named by kind are unused
StrArg(s) == [kind |-> "str", s |-> s, l |-> <<>>, i |-> 0]
ListArg(l) == [kind |-> "list", s |-> <<>>, l |-> l, i |-> 0]
IntArg(i) == [kind |-> "int", s |-> <<>>, l |-> <<>>, i |-> i]
NoArg == [kind |-> "none", s |-> <<>>, l |-> <<>>, i |-> 0]

\* a plain QCLCircuit; a and b are the operands given to a derived class
PlainObj == [cls |-> "QCLCircuit", a |-> 0, b |-> 0]

\* nothing returned or printed
NoRet == [kind |-> "none", val |-> 0, lines |-> <<>>]

\* the fields of an object whose __init__ has not run
NoCircuit ==
    /\ alive = FALSE
    /\ n = 0
    /\ state = NoVec
    /\ gates = <<>>
    /\ result = <<>>
    /\ identity = NoMat
    /\ last = [op |-> "none", err |-> "none", arg |-> NoArg]
    /\ sim = 0 - 1
    /\ obj = PlainObj
    /\ ret = NoRet

\* no generator is running
NoGen == [fn |-> "none", n_bits |-> 0, isInt |-> FALSE, fixed_bits |-> {},
          switch_bit |-> 0, pc |-> "none", mask |-> 0, out |-> 0,
          left |-> 0, yielded |-> <<>>, error |-> "none"]

\* no call of extract_bits has been made
NoCall == [number |-> 0, isInt |-> FALSE, list |-> <<>>, pc |-> "none",
           err |-> "none", val |-> 0]

NoExtract == ext = NoCall

\* an array object: one of the arrays the class Gate holds as attributes
\* (Gate.X, Gate.H, Gate.I), or the array a numpy call created for one field
\* of circuit c (its state, its identity, its result, entry k of its gates)
ClassArray(name) == [cls |-> name, c |-> 0, k |-> 0]
NewArray(c, field, k) == [cls |-> field, c |-> c, k |-> k]
NoArray == [cls |-> "none", c |-> 0, k |-> 0]

\* the two circuit objects
Circuits == {1, 2}

\* a QCLCircuit that has not been constructed
NoObject == [made |-> FALSE, n |-> 0, state |-> NoArray, identity |-> NoArray,
             gates |-> <<>>, result |-> NoArray]

NoObjects == heap = [c \in Circuits |-> NoObject]

\* the Agent objects, named as their constructor names them
Agents == {"Alice", "Bob"}

\* the keys of Agent._events, in the order __init__ inserts them
EventOrder == <<"start", "message_sent", "message_received", "message_transmitted", "stop">>
EventNames == {EventOrder[k] : k \in 1..Len(EventOrder)}

\* Protocol() and Agent(name) for every name: not running, no participants,
\* every event with an empty list
NewProtocol ==
    [running |-> FALSE,
     agents |-> {},
     events |-> [ev \in EventNames |-> <<>>],
     lists |-> [a \in Agents |-> [ev \in EventNames |-> <<>>]],
     last |-> [op |-> "none", err |-> "none"]]

NoProtocol == prot = NewProtocol

\* nothing outside the generator and the one circuit object is in use
Idle == NoExtract /\ NoObjects /\ NoProtocol

\* ----------------------------------------------------- range_fixed_bits(_switch)
\* the check that raises OutOfRangeError in range_fixed_bits
RfbOutOfRange(n_bits, fixed_bits) == \E i \in fixed_bits : i >= n_bits

\* a variant of RfbsOutOfRange that compares with > where the code has >=
RfbsOutOfRangeStrict(n_bits, fixed_bits, switch_bit) ==
    (\E i \in fixed_bits : i > n_bits) \/ switch_bit > n_bits

\* a variant of RfbsOutOfRange that also rejects a switch bit among the fixed bits
RfbsOutOfRangeOrOverlap(n_bits, fixed_bits, switch_bit) ==
    (\E i \in fixed_bits : i >= n_bits) \/ switch_bit >= n_bits \/ switch_bit \in fixed_bits

\* the check that raises OutOfRangeError in range_fixed_bits_switch
RfbsOutOfRange(n_bits, fixed_bits, switch_bit) ==
    (\E i \in fixed_bits : i >= n_bits) \/ switch_bit >= n_bits

\* 1 << (n_bits - i - 1) raises ValueError (negative shift count) for some i of S
NegativeShift(n_bits, S) == \E i \in S : n_bits - i - 1 < 0

\* mask of range_fixed_bits
RfbMask(n_bits, fixed_bits) == SumShifts(n_bits, fixed_bits)

\* mask of range_fixed_bits_switch: a sum over the list [*fixed_bits, switch_bit]
RfbsMask(n_bits, fixed_bits, switch_bit) ==
    SumShifts(n_bits, fixed_bits) + Shl1(n_bits - switch_bit - 1)

\* a variant of RfbsClear whose shift is off by one
RfbsClearOffByOne(out, n_bits, switch_bit) == AndNot(out, Shl1(n_bits - switch_bit))

\* switch_bit_mask is ~(1 << (n_bits - switch_bit - 1)); out & switch_bit_mask
RfbsClear(out, n_bits, switch_bit) == AndNot(out, Shl1(n_bits - switch_bit - 1))

\* number of iterations of the for loop: range((2**n_bits >> offset) - 1)
LoopCount(n_bits, offset) ==
    LET c == Shr(2 ^ n_bits, offset) - 1 IN IF c < 0 THEN 0 ELSE c

\* a variant of NextOut that forgets to restore the fixed bits
NextOutNoMask(out, mask) == out + 1

\* out = (out + 1) | mask
NextOut(out, mask) == BitOr(out + 1, mask)

\* a generator object that has been created and not yet advanced
GenCreated(fn, n_bits, isInt, fixed_bits, switch_bit) ==
    [fn |-> fn, n_bits |-> n_bits, isInt |-> isInt, fixed_bits |-> fixed_bits,
     switch_bit |-> switch_bit, pc |-> "created", mask |-> 0, out |-> 0,
     left |-> 0, yielded |-> <<>>, error |-> "none"]

\* the calls explored: every n_bits, every set of positions (or a single int
\* position), every switch bit, in and out of range
InitUtil ==
    \E fn \in {"range_fixed_bits", "range_fixed_bits_switch"} :
    \E n_bits \in 1..MaxBits :
    \E fixed_bits \in SUBSET Positions :
    \E isInt \in BOOLEAN :
    \E switch_bit \in Positions :
        /\ isInt => Cardinality(fixed_bits) = 1
        /\ fn = "range_fixed_bits" => switch_bit = 0
        /\ gen = GenCreated(fn, n_bits, isInt, fixed_bits, switch_bit)
        /\ NoCircuit
        /\ Idle

\* first next() of range_fixed_bits: the range check, then the first yield
RfbStart ==
    /\ UNCHANGED circVars
    /\ gen.fn = "range_fixed_bits"
    /\ gen.pc = "created"
    /\ IF RfbOutOfRange(gen.n_bits, gen.fixed_bits)
       THEN gen' = [gen EXCEPT !.pc = "raised", !.error = "OutOfRangeError"]
       ELSE IF NegativeShift(gen.n_bits, gen.fixed_bits)
       THEN gen' = [gen EXCEPT !.pc = "raised", !.error = "ValueError"]
       ELSE LET mask == RfbMask(gen.n_bits, gen.fixed_bits)
            IN  gen' = [gen EXCEPT !.pc = "suspended", !.mask = mask, !.out = mask,
                          !.left = LoopCount(gen.n_bits, Cardinality(gen.fixed_bits)),
                          !.yielded = <<mask>>]

\* a later next() of range_fixed_bits: one loop iteration, or the end of the loop
RfbResume ==
    /\ UNCHANGED circVars
    /\ gen.fn = "range_fixed_bits"
    /\ gen.pc = "suspended"
    /\ IF gen.left = 0
       THEN gen' = [gen EXCEPT !.pc = "done"]
       ELSE LET out == NextOut(gen.out, gen.mask)
            IN  gen' = [gen EXCEPT !.out = out, !.left = @ - 1,
                          !.yielded = Append(@, out)]

\* first next() of range_fixed_bits_switch
RfbsStart ==
    /\ UNCHANGED circVars
    /\ gen.fn = "range_fixed_bits_switch"
    /\ gen.pc = "created"
    /\ IF RfbsOutOfRange(gen.n_bits, gen.fixed_bits, gen.switch_bit)
       THEN gen' = [gen EXCEPT !.pc = "raised", !.error = "OutOfRangeError"]
       ELSE IF NegativeShift(gen.n_bits, gen.fixed_bits \cup {gen.switch_bit})
       THEN gen' = [gen EXCEPT !.pc = "raised", !.error = "ValueError"]
       ELSE LET mask == RfbsMask(gen.n_bits, gen.fixed_bits, gen.switch_bit)
            IN  gen' = [gen EXCEPT !.pc = "suspended", !.mask = mask, !.out = mask,
                          !.left = LoopCount(gen.n_bits, Cardinality(gen.fixed_bits) + 1),
                          !.yielded = <<<<RfbsClear(mask, gen.n_bits, gen.switch_bit), mask>>>>]

\* a later next() of range_fixed_bits_switch
RfbsResume ==
    /\ UNCHANGED circVars
    /\ gen.fn = "range_fixed_bits_switch"
    /\ gen.pc = "suspended"
    /\ IF gen.left = 0
       THEN gen' = [gen EXCEPT !.pc = "done"]
       ELSE LET out == NextOut(gen.out, gen.mask)
            IN  gen' = [gen EXCEPT !.out = out, !.left = @ - 1,
                          !.yielded = Append(@, <<RfbsClear(out, gen.n_bits, gen.switch_bit), out>>)]

NextUtil == RfbStart \/ RfbResume \/ RfbsStart \/ RfbsResume

SpecUtil == InitUtil /\ [][NextUtil]_vars

\* ------------------------------------------------------ QCLCircuit: inputs
\* the characters strings are made of: binary digits, a newline, another letter
Alphabet == {"0", "1", "\n", "x"}

\* all sequences over S of length at most k
SeqsUpTo(S, k) == UNION {[1..j -> S] : j \in 0..k}

\* the number of non-zero entries of a list
NonZeros(l) == Cardinality({i \in 1..Len(l) : l[i] # 0})

\* the arguments given to _initialize_state; the amplitude lists are those
\* over {0, 1} whose norm is a power of 1/sqrt 2 (or zero)
InitArgs ==
    {StrArg(s) : s \in SeqsUpTo(Alphabet, MaxStr)}
      \cup {ListArg(l) : l \in {x \in SeqsUpTo({0, 1}, MaxList) : NonZeros(x) \in {0, 1, 2, 4}}}
      \cup {IntArg(i) : i \in (0 - 1)..MaxBits}

\* the position arguments given to x and h: an int, or a list of positions
PosArgs ==
    {[isInt |-> TRUE, list |-> <<p>>] : p \in Positions}
      \cup {[isInt |-> FALSE, list |-> l] :
              l \in {x \in SeqsUpTo(Positions, MaxPosList) :
                       \A k \in 1..(Len(x) - 1) : x[k] < x[k + 1]}}

\* the characters given to _initialize_circuit
CircuitAlphabet == {"0", "1", "h", "\n"}

\* the strings given to _initialize_circuit
CircuitStrings == SeqsUpTo(CircuitAlphabet, MaxStr)

\* ------------------------------------------------- QCLCircuit: pure functions
\* re.match(r"^[01]+$", s) is not None: without re.MULTILINE, $ matches at the
\* end of the string and also just before a newline that ends the string
BinaryRegexMatch(s) ==
    LET digits(k) == k >= 1 /\ \A i \in 1..k : s[i] \in {"0", "1"}
    IN  \/ digits(Len(s))
        \/ (Len(s) >= 2 /\ s[Len(s)] = "\n" /\ digits(Len(s) - 1))

RECURSIVE DigitsValueLittleEndian(_, _)
\* a variant of DigitsValue that takes the first character as least significant
DigitsValueLittleEndian(s, k) ==
    IF k = 0 THEN 0
    ELSE (IF s[1] = "1" THEN 1 ELSE 0) + 2 * DigitsValueLittleEndian(Tail(s), k - 1)

RECURSIVE DigitsValue(_, _)
\* the value of the binary digits s[1..k], first character most significant
DigitsValue(s, k) ==
    IF k = 0 THEN 0 ELSE 2 * DigitsValue(s, k - 1) + (IF s[k] = "1" THEN 1 ELSE 0)

\* int(s, 2) for a string accepted by the regex: int() strips the white space
\* around the digits
IntBase2(s) ==
    IF s[Len(s)] = "\n" THEN DigitsValue(s, Len(s) - 1) ELSE DigitsValue(s, Len(s))

RECURSIVE BitLength(_)
\* int.bit_length() of a non-negative integer
BitLength(k) == IF k = 0 THEN 0 ELSE 1 + BitLength(k \div 2)

\* length & (length - 1) != 0 or length == 0
NotPowerOfTwoLength(length) ==
    length = 0 \/ BitAnd(length, length - 1) # 0

\* the square of np.linalg.norm(vector) for a list of integers
NormSquared(l) == SumTo([i \in 1..Len(l) |-> l[i] * l[i]], Len(l))

\* __normalize(np.array(l)), for a non-zero list whose squared norm is 2^j:
\* the vector itself when the norm is 1, else vector / norm = l * (1/sqrt 2)^j
Normalize(l) == [e |-> BitLength(NormSquared(l)) - 1, v |-> l]

\* self.tp([Gate.I] * k), the value of _identity set by the n setter
IdentityOfSize(k) == Tp([i \in 1..k |-> GateI])

\* expanded_gate[position] = single_gate raises IndexError
ExpandIndexError(nn, list) == \E k \in 1..Len(list) : list[k] >= nn \/ list[k] < 0 - nn

\* expand_gate: [Gate.I] * n with single_gate at the positions (Python list
\* indexing: a negative position counts from the end, a position outside
\* [-n, n) raises IndexError), then tp, which raises ValueError on an empty list
ExpandGate(nn, single_gate, list) ==
    IF ExpandIndexError(nn, list) THEN [err |-> "IndexError", g |-> NoMat]
    ELSE IF nn = 0 THEN [err |-> "ValueError", g |-> NoMat]
    ELSE LET hit == {IF list[k] < 0 THEN list[k] + nn ELSE list[k] : k \in 1..Len(list)}
         IN  [err |-> "none",
              g |-> Tp([q \in 1..nn |-> IF (q - 1) \in hit THEN single_gate ELSE GateI])]

\* a variant of SwapRows that stores row j in row i and clears row j
SwapRowsDropsRow(m, i, j) ==
    [r \in 1..Len(m) |-> IF r = i + 1 THEN m[j + 1]
                         ELSE IF r = j + 1 THEN [q \in 1..Len(m[r]) |-> 0] ELSE m[r]]

\* identity[i], identity[j] = identity[j].copy(), identity[i].copy() (0-based)
SwapRows(m, i, j) ==
    [r \in 1..Len(m) |-> IF r = i + 1 THEN m[j + 1] ELSE IF r = j + 1 THEN m[i + 1] ELSE m[r]]

\* one iteration of the loop of cx and ccx: when i has every control mask set
\* and the target mask clear, swap rows i and i | t_mask; indexing a row that
\* does not exist raises IndexError
ControlledStep(m, i, c_masks, t_mask) ==
    IF (\A k \in 1..Len(c_masks) : BitAnd(i, c_masks[k]) # 0) /\ BitAnd(i, t_mask) = 0
    THEN LET swap_idx == BitOr(i, t_mask)
         IN  IF swap_idx >= Len(m) \/ i >= Len(m)
             THEN [err |-> "IndexError", m |-> m]
             ELSE [err |-> "none", m |-> SwapRows(m, i, swap_idx)]
    ELSE [err |-> "none", m |-> m]

RECURSIVE ControlledLoop(_, _, _, _, _)
\* the loop of cx and ccx over the indices i, ..., size - 1 in ascending order
\* (for i in range(self._state.size)), ended by the first iteration that
\* raises; the range is walked as its lower half followed by its upper half
ControlledLoop(m, i, size, c_masks, t_mask) ==
    IF i >= size THEN [err |-> "none", m |-> m]
    ELSE IF size - i = 1 THEN ControlledStep(m, i, c_masks, t_mask)
    ELSE LET mid == (i + size) \div 2
             lower == ControlledLoop(m, i, mid, c_masks, t_mask)
         IN  IF lower.err # "none" THEN lower
             ELSE ControlledLoop(lower.m, mid, size, c_masks, t_mask)

\* a variant of CxOutcome that takes t as the control and c as the target
CxOutcomeSwapped(ident, nn, size, c, t) ==
    IF nn - c - 1 < 0 \/ nn - t - 1 < 0
    THEN [err |-> "ValueError", m |-> ident.m]
    ELSE ControlledLoop(ident.m, 0, size, <<Shl1(nn - t - 1)>>, Shl1(nn - c - 1))

\* the body of cx up to the append: 1 << (n - c - 1) raises ValueError when the
\* shift count is negative
CxOutcome(ident, nn, size, c, t) ==
    IF nn - c - 1 < 0 \/ nn - t - 1 < 0
    THEN [err |-> "ValueError", m |-> ident.m]
    ELSE ControlledLoop(ident.m, 0, size, <<Shl1(nn - c - 1)>>, Shl1(nn - t - 1))

\* a variant of CcxOutcome that tests the first control only
CcxOutcomeOneControl(ident, nn, size, c1, c2, t) ==
    IF nn - c1 - 1 < 0 \/ nn - c2 - 1 < 0 \/ nn - t - 1 < 0
    THEN [err |-> "ValueError", m |-> ident.m]
    ELSE ControlledLoop(ident.m, 0, size, <<Shl1(nn - c1 - 1)>>, Shl1(nn - t - 1))

\* the body of ccx up to the append
CcxOutcome(ident, nn, size, c1, c2, t) ==
    IF nn - c1 - 1 < 0 \/ nn - c2 - 1 < 0 \/ nn - t - 1 < 0
    THEN [err |-> "ValueError", m |-> ident.m]
    ELSE ControlledLoop(ident.m, 0, size, <<Shl1(nn - c1 - 1), Shl1(nn - c2 - 1)>>,
                        Shl1(nn - t - 1))

RECURSIVE RunFold(_, _, _)
\* the loop of run from gate k on: result = np.matmul(result, gate); matmul
\* raises ValueError when the sizes do not match
RunFold(x, gs, k) ==
    IF k > Len(gs) THEN [err |-> "none", vec |-> x]
    ELSE IF Len(gs[k].m) # Len(x.v) THEN [err |-> "ValueError", vec |-> x]
    ELSE RunFold(VecMat(x, gs[k]), gs, k + 1)

\* a variant of RunOutcome that applies the gates last to first
RunOutcomeReversed(st, gs) == RunFold(st, [k \in 1..Len(gs) |-> gs[Len(gs) + 1 - k]], 1)

\* a variant of RunOutcome that continues from the stored result of the last run
RunOutcomeFromResult(st, gs) == RunFold(IF result # <<>> THEN result[1] ELSE st, gs, 1)

\* run: the fold starts from the initial state
RunOutcome(st, gs) == RunFold(st, gs, 1)

\* ------------------------------------------------- the classical reading (sim)
\* idx with big-endian bit pos of an nn-bit register negated
FlipBit(idx, nn, pos) ==
    IF BitBE(idx, nn, pos) = 1 THEN idx - 2 ^ (nn - pos - 1) ELSE idx + 2 ^ (nn - pos - 1)

RECURSIVE FlipBits(_, _, _, _)
\* idx with the bits at list[1..k] negated
FlipBits(idx, nn, list, k) ==
    IF k = 0 THEN idx ELSE FlipBit(FlipBits(idx, nn, list, k - 1), nn, list[k])

\* the value of a string of binary digits, first character most significant
BigEndianValue(s) ==
    SumTo([i \in 1..Len(s) |-> IF s[i] = "1" THEN 2 ^ (Len(s) - i) ELSE 0], Len(s))

\* the positions are pairwise distinct and all in [0, nn)
ProperPositions(nn, list) ==
    /\ \A k \in 1..Len(list) : list[k] \in 0..(nn - 1)
    /\ \A j, k \in 1..Len(list) : j # k => list[j] # list[k]

\* the register value an initialization to a basis state stands for
SimInit(arg) ==
    IF arg.kind = "int" THEN 0
    ELSE IF arg.kind = "str" /\ \A i \in 1..Len(arg.s) : arg.s[i] \in {"0", "1"}
    THEN BigEndianValue(arg.s)
    ELSE 0 - 1

\* X on each position of the list
SimX(list) ==
    IF sim >= 0 /\ ProperPositions(n, list) THEN FlipBits(sim, n, list, Len(list)) ELSE 0 - 1

\* NOT of the target when every control is 1
SimControlled(controls, t) ==
    IF sim >= 0 /\ ProperPositions(n, controls \o <<t>>)
    THEN IF \A k \in 1..Len(controls) : BitBE(sim, n, controls[k]) = 1
         THEN FlipBit(sim, n, t) ELSE sim
    ELSE 0 - 1

\* ------------------------------------------------------ QCLCircuit: operations
\* what _initialize_state(arg) leaves in _n, _identity and _state, and the
\* exception it raises.  The n setter stores _n and then computes _identity;
\* tp raises ValueError on the empty list, after _n is stored.
InitOutcome(arg) ==
    LET keep == [err |-> "none", n |-> n, identity |-> identity, state |-> state]
    IN  CASE arg.kind = "str" ->
               IF ~BinaryRegexMatch(arg.s)
               THEN [keep EXCEPT !.err = "BinaryStringError"]
               ELSE [err |-> "none", n |-> Len(arg.s),
                     identity |-> IdentityOfSize(Len(arg.s)),
                     state |-> BasisVec(2 ^ Len(arg.s), IntBase2(arg.s))]
          [] arg.kind = "list" ->
               IF NotPowerOfTwoLength(Len(arg.l))
               THEN [keep EXCEPT !.err = "PowerOfTwoLengthError"]
               ELSE IF NormSquared(arg.l) = 0
               THEN [keep EXCEPT !.err = "ValueError"]
               ELSE IF BitLength(Len(arg.l)) - 1 = 0
               THEN [err |-> "ValueError", n |-> 0, identity |-> identity,
                     state |-> Normalize(arg.l)]
               ELSE [err |-> "none", n |-> BitLength(Len(arg.l)) - 1,
                     identity |-> IdentityOfSize(BitLength(Len(arg.l)) - 1),
                     state |-> Normalize(arg.l)]
          [] OTHER ->
               IF arg.i <= 0
               THEN [keep EXCEPT !.err = "PositiveValueError"]
               ELSE [err |-> "none", n |-> arg.i,
                     identity |-> IdentityOfSize(arg.i),
                     state |-> BasisVec(2 ^ arg.i, 0)]

\* QCLCircuit(arg) on a new object, or _initialize_state(arg) on an existing
\* one: the gate list and the result are reset before the argument is examined.
\* When __init__ raises there is no object.
InitializeState(arg) ==
    LET o == InitOutcome(arg)
    IN  /\ gates' = <<>>
        /\ result' = <<>>
        /\ n' = o.n
        /\ identity' = o.identity
        /\ state' = o.state
        /\ alive' = (alive \/ o.err = "none")
        /\ last' = [op |-> "_initialize_state", err |-> o.err, arg |-> arg]
        /\ sim' = IF o.err = "none" THEN SimInit(arg) ELSE 0 - 1
        /\ UNCHANGED <<genVars, appVars>>

\* re.match(r"^[01h]+$", s) is not None (see BinaryRegexMatch for $)
CircuitRegexMatch(s) ==
    LET letters(k) == k >= 1 /\ \A i \in 1..k : s[i] \in {"0", "1", "h"}
    IN  \/ letters(Len(s))
        \/ (Len(s) >= 2 /\ s[Len(s)] = "\n" /\ letters(Len(s) - 1))

RECURSIVE IndicesOf(_, _, _)
\* [i for i, digit in enumerate(s) if digit == ch], over s[1..k]
IndicesOf(s, ch, k) ==
    IF k = 0 THEN <<>>
    ELSE IF s[k] = ch THEN Append(IndicesOf(s, ch, k - 1), k - 1)
    ELSE IndicesOf(s, ch, k - 1)

\* what _initialize_circuit(s) does on an object of nn qubits: both checks come
\* before any assignment; then the all-zero state and the two operators appended
\* by self.x(x_list) and self.h(h_list)
InitCircuitOutcome(nn, s) ==
    IF ~CircuitRegexMatch(s) \/ Len(s) # nn
    THEN [err |-> "ValueError", state |-> NoVec, gates |-> <<>>]
    ELSE [err |-> "none", state |-> BasisVec(2 ^ nn, 0),
          gates |-> <<ExpandGate(nn, GateX, IndicesOf(s, "1", Len(s))).g,
                      ExpandGate(nn, GateH, IndicesOf(s, "h", Len(s))).g>>]

\* the register value _initialize_circuit(s) prepares, when s has no h
SimCircuit(nn, s) ==
    IF IndicesOf(s, "h", Len(s)) = <<>>
    THEN FlipBits(0, nn, IndicesOf(s, "1", Len(s)), Len(IndicesOf(s, "1", Len(s))))
    ELSE 0 - 1

\* _initialize_circuit(s) on an existing object
InitializeCircuit(s) ==
    /\ alive
    /\ LET o == InitCircuitOutcome(n, s)
       IN  /\ last' = [op |-> "_initialize_circuit", err |-> o.err, arg |-> NoArg]
           /\ IF o.err = "none"
              THEN /\ state' = o.state
                   /\ gates' = o.gates
                   /\ result' = <<>>
                   /\ sim' = SimCircuit(n, s)
              ELSE UNCHANGED <<state, gates, result, sim>>
    /\ UNCHANGED <<alive, n, identity, genVars, appVars>>

\* a variant of AppendGate that also drops the stored result
AppendGateDropsResult(op, err, matrix, newsim) ==
    /\ last' = [op |-> op, err |-> err, arg |-> NoArg]
    /\ gates' = IF err = "none" THEN Append(gates, matrix) ELSE gates
    /\ sim' = IF err = "none" THEN newsim ELSE sim
    /\ ret' = NoRet
    /\ result' = <<>>
    /\ UNCHANGED <<alive, n, state, identity, obj, genVars>>

\* the end of x, h, cx and ccx: self.gates.append(matrix), reached only when
\* building the matrix raised nothing (err = "none"); newsim is the classical
\* reading after the call
AppendGate(op, err, matrix, newsim) ==
    /\ last' = [op |-> op, err |-> err, arg |-> NoArg]
    /\ gates' = IF err = "none" THEN Append(gates, matrix) ELSE gates
    /\ sim' = IF err = "none" THEN newsim ELSE sim
    /\ ret' = NoRet
    /\ UNCHANGED <<alive, n, state, result, identity, obj, genVars>>

\* x(i): self.gates.append(self.expand_gate(Gate.X, i))
X(pos) ==
    /\ alive
    /\ Len(gates) < MaxGates
    /\ LET o == ExpandGate(n, GateX, pos.list)
       IN  AppendGate("x", o.err, o.g, SimX(pos.list))

\* h(i): self.gates.append(self.expand_gate(Gate.H, i))
H(pos) ==
    /\ alive
    /\ Len(gates) < MaxGates
    /\ LET o == ExpandGate(n, GateH, pos.list)
       IN  AppendGate("h", o.err, o.g, 0 - 1)

\* cx(c, t)
Cx(c, t) ==
    /\ alive
    /\ Len(gates) < MaxGates
    /\ LET o == CxOutcome(identity, n, Len(state.v), c, t)
       IN  AppendGate("cx", o.err, [e |-> identity.e, m |-> o.m], SimControlled(<<c>>, t))

\* ccx(c1, c2, t)
Ccx(c1, c2, t) ==
    /\ alive
    /\ Len(gates) < MaxGates
    /\ LET o == CcxOutcome(identity, n, Len(state.v), c1, c2, t)
       IN  AppendGate("ccx", o.err, [e |-> identity.e, m |-> o.m],
                      SimControlled(<<c1, c2>>, t))

\* run(): stores the folded vector in _result and returns self.result
Run ==
    /\ alive
    /\ LET o == RunOutcome(state, gates)
       IN  /\ last' = [op |-> "run", err |-> o.err, arg |-> NoArg]
           /\ result' = IF o.err = "none" THEN <<o.vec>> ELSE result
    /\ ret' = NoRet
    /\ UNCHANGED <<alive, n, state, gates, identity, sim, obj, genVars>>

\* a variant of ResultProperty without the fall-back to the initial state
ResultPropertyNoFallback == IF result # <<>> THEN result[1] ELSE NoVec

\* the result property: _result if it is not None, else _state
ResultProperty == IF result # <<>> THEN result[1] ELSE state

\* ------------------------------------------------ compound gates: or_, swap
\* SimControlled from the reading sm, on a register of nn qubits
SimControlledFrom(sm, nn, controls, t) ==
    IF sm >= 0 /\ ProperPositions(nn, controls \o <<t>>)
    THEN IF \A k \in 1..Len(controls) : BitBE(sm, nn, controls[k]) = 1
         THEN FlipBit(sm, nn, t) ELSE sm
    ELSE 0 - 1

RECURSIVE CallsInOrder(_, _, _, _, _, _, _)
\* a method body that is a sequence of cx / ccx calls, from call k on, made on
\* an object with _identity = ident, _n = nn and _state.size = size: every
\* call that raises nothing appends its operator, the first call that raises
\* ends the method and leaves the operators appended before it in the list.
\* calls[k] is <<controls, target>>; gs and sm are the gate list and the
\* classical reading before call k
CallsInOrder(ident, nn, size, calls, k, gs, sm) ==
    IF k > Len(calls) THEN [err |-> "none", gates |-> gs, sim |-> sm]
    ELSE LET cs == calls[k][1]
             t == calls[k][2]
             o == IF Len(cs) = 1
                  THEN CxOutcome(ident, nn, size, cs[1], t)
                  ELSE CcxOutcome(ident, nn, size, cs[1], cs[2], t)
         IN  IF o.err # "none" THEN [err |-> o.err, gates |-> gs, sim |-> sm]
             ELSE CallsInOrder(ident, nn, size, calls, k + 1,
                               Append(gs, [e |-> ident.e, m |-> o.m]),
                               SimControlledFrom(sm, nn, cs, t))

\* a variant of OrCalls that leaves out the Toffoli
OrCallsNoToffoli(q1, q2, t) == <<<< <<q1>>, t >>, << <<q2>>, t >>>>

\* the calls of or_: cx(q1, t), cx(q2, t), ccx(q1, q2, t)
OrCalls(q1, q2, t) == <<<< <<q1>>, t >>, << <<q2>>, t >>, << <<q1, q2>>, t >>>>

\* a variant of SwapCalls whose second CNOT repeats the first
SwapCallsSameDirection(i, j) == <<<< <<i>>, j >>, << <<i>>, j >>, << <<i>>, j >>>>

\* the calls of swap: cx(i, j), cx(j, i), cx(i, j)
SwapCalls(i, j) == <<<< <<i>>, j >>, << <<j>>, i >>, << <<i>>, j >>>>

\* the end of or_ and swap
Compound(op, calls) ==
    LET o == CallsInOrder(identity, n, Len(state.v), calls, 1, gates, sim)
    IN  /\ last' = [op |-> op, err |-> o.err, arg |-> NoArg]
        /\ gates' = o.gates
        /\ sim' = o.sim
        /\ ret' = NoRet
        /\ UNCHANGED <<alive, n, state, result, identity, obj, genVars>>

\* or_(q1, q2, t)
Or(q1, q2, t) ==
    /\ alive
    /\ Len(gates) < MaxGates
    /\ Compound("or_", OrCalls(q1, q2, t))

\* swap(i, j)
Swap(i, j) ==
    /\ alive
    /\ Len(gates) < MaxGates
    /\ Compound("swap", SwapCalls(i, j))

\* --------------------------------------------------------- derived circuits
\* no constructor has been called yet
Fresh == ~alive /\ last.op = "none"

\* QCLCircuit(arg): __init__ on a new object
NewCircuit(arg) ==
    /\ Fresh
    /\ InitializeState(arg)

\* the operands given to HalfAdderCircuit and to BooleanInnerProductCircuit
BitArgs == (0 - 1)..2
Operands == (0 - 1)..MaxOperand

\* HalfAdderCircuit(a, b): BitValueError for an operand outside (0, 1); else
\* super().__init__(4), then self.initialize_circuit(...), a name that neither
\* the class nor QCLCircuit defines (QCLCircuit has _initialize_circuit), so
\* the attribute lookup raises AttributeError and the constructor ends there
HalfAdderCircuit(a, b) ==
    /\ Fresh
    /\ IF a \notin {0, 1} \/ b \notin {0, 1}
       THEN /\ last' = [op |-> "HalfAdderCircuit", err |-> "BitValueError", arg |-> NoArg]
            /\ UNCHANGED <<n, identity, state>>
       ELSE LET o == InitOutcome(IntArg(4))
            IN  /\ last' = [op |-> "HalfAdderCircuit", err |-> "AttributeError",
                            arg |-> NoArg]
                /\ n' = o.n
                /\ identity' = o.identity
                /\ state' = o.state
    /\ obj' = [cls |-> "HalfAdderCircuit", a |-> a, b |-> b]
    /\ gates' = <<>>
    /\ result' = <<>>
    /\ sim' = 0 - 1
    /\ UNCHANGED <<alive, ret, genVars>>

\* f"{v:0{width}b}" for 0 <= v < 2^width
BinaryString(v, width) ==
    [k \in 1..width |-> IF BitBE(v, width, k - 1) = 1 THEN "1" ELSE "0"]

\* a.bit_length() if a > 0 else 1
OperandLen(a) == IF a > 0 THEN BitLength(a) ELSE 1

\* a variant of BipCalls that pairs the bits of a and b from the most
\* significant end
BipCallsFromTop(a_len, b_len) ==
    [k \in 1..(IF a_len < b_len THEN a_len ELSE b_len) |->
        << <<k - 1, a_len + k - 1>>, a_len + b_len >>]

\* the loop of BooleanInnerProductCircuit.__init__: for i in range(min(a_len,
\* b_len)): ccx(a_len - i - 1, a_len + b_len - i - 1, r_idx)
BipCalls(a_len, b_len) ==
    [k \in 1..(IF a_len < b_len THEN a_len ELSE b_len) |->
        << <<a_len - (k - 1) - 1, a_len + b_len - (k - 1) - 1>>, a_len + b_len >>]

\* BooleanInnerProductCircuit(a, b)
BooleanInnerProductCircuit(a, b) ==
    /\ Fresh
    /\ IF a < 0 \/ b < 0
       THEN /\ last' = [op |-> "BooleanInnerProductCircuit", err |-> "PositiveValueError",
                        arg |-> NoArg]
            /\ UNCHANGED <<alive, n, identity, state, gates, sim>>
       ELSE LET a_len == OperandLen(a)
                b_len == OperandLen(b)
                nn == a_len + b_len + 1
                str == BinaryString(a, a_len) \o BinaryString(b, b_len) \o <<"0">>
                i == InitOutcome(IntArg(nn))
                c == InitCircuitOutcome(nn, str)
                o == CallsInOrder(i.identity, nn, Len(c.state.v), BipCalls(a_len, b_len),
                                  1, c.gates, SimCircuit(nn, str))
            IN  /\ n' = i.n
                /\ identity' = i.identity
                /\ state' = c.state
                /\ last' = [op |-> "BooleanInnerProductCircuit", err |-> o.err,
                            arg |-> NoArg]
                /\ gates' = o.gates
                /\ sim' = o.sim
                /\ alive' = (o.err = "none")
    /\ obj' = [cls |-> "BooleanInnerProductCircuit", a |-> a, b |-> b]
    /\ result' = <<>>
    /\ UNCHANGED <<ret, genVars>>

\* RandomCircuit(k): super().__init__(k), then self.h(list(range(k)))
RandomCircuit(k) ==
    /\ Fresh
    /\ LET i == InitOutcome(IntArg(k))
           g == ExpandGate(k, GateH, [q \in 1..k |-> q - 1])
           err == IF i.err # "none" THEN i.err ELSE g.err
       IN  /\ last' = [op |-> "RandomCircuit", err |-> err, arg |-> NoArg]
           /\ n' = i.n
           /\ identity' = i.identity
           /\ state' = i.state
           /\ gates' = IF err = "none" THEN <<g.g>> ELSE <<>>
           /\ alive' = (err = "none")
    /\ obj' = [cls |-> "RandomCircuit", a |-> k, b |-> 0]
    /\ result' = <<>>
    /\ sim' = 0 - 1
    /\ UNCHANGED <<ret, genVars>>

\* entry i (1-based) of the vector x is the number 1
IsOne(x, i) == x.e % 2 = 0 /\ x.v[i] = 2 ^ (x.e \div 2)

\* np.where(x == 1)[0]: the 0-based indices of the entries equal to 1
WhereOne(x) == {i - 1 : i \in {j \in 1..Len(x.v) : IsOne(x, j)}}

\* idx & 1
ParityBit(idx) == idx % 2

\* BooleanInnerProductCircuit.inner_product(): run(), then the lowest bit of
\* the first index whose amplitude is 1; [0][0] raises IndexError when no
\* amplitude is 1
InnerProduct ==
    /\ alive
    /\ obj.cls = "BooleanInnerProductCircuit"
    /\ LET o == RunOutcome(state, gates)
           ones == WhereOne(o.vec)
           err == IF o.err # "none" THEN o.err
                  ELSE IF ones = {} THEN "IndexError" ELSE "none"
       IN  /\ last' = [op |-> "inner_product", err |-> err, arg |-> NoArg]
           /\ result' = IF o.err = "none" THEN <<o.vec>> ELSE result
           /\ ret' = IF err = "none"
                     THEN [kind |-> "bool",
                           val |-> ParityBit(CHOOSE i \in ones : \A j \in ones : i <= j),
                           lines |-> <<>>]
                     ELSE NoRet
    /\ UNCHANGED <<alive, n, state, gates, identity, sim, obj, genVars>>

\* ------------------------------------------------------ extract_bits, counts
RECURSIVE ExtractFold(_, _, _, _, _)
\* the loop of extract_bits from entry k of the list on: number >> (nb - i - 1)
\* raises ValueError when the shift count is negative
ExtractFold(number, nb, list, k, bits) ==
    IF k > Len(list) THEN [err |-> "none", val |-> bits]
    ELSE IF nb - list[k] - 1 < 0 THEN [err |-> "ValueError", val |-> bits]
    ELSE ExtractFold(number, nb, list, k + 1,
                     2 * bits + (Shr(number, nb - list[k] - 1) % 2))

\* a variant of ExtractBits that takes the positions in reverse order
ExtractBitsReversed(number, list) ==
    ExtractFold(number, BitLength(number), [k \in 1..Len(list) |-> list[Len(list) + 1 - k]], 1, 0)

\* extract_bits(number, list) for number >= 0: positions are counted from the
\* most significant set bit, n = number.bit_length()
ExtractBits(number, list) == ExtractFold(number, BitLength(number), list, 1, 0)

\* extract_bits(number, idx) for an int idx: number >> (n - idx - 1) & 1
ExtractBit(number, idx) ==
    IF BitLength(number) - idx - 1 < 0 THEN [err |-> "ValueError", val |-> 0]
    ELSE [err |-> "none", val |-> Shr(number, BitLength(number) - idx - 1) % 2]

\* the calls of extract_bits explored: every number up to MaxNumber, an int
\* position or a list of at most MaxExtract positions, repetitions allowed
InitExtract ==
    \E number \in 0..MaxNumber :
    \E isInt \in BOOLEAN :
    \E list \in SeqsUpTo(Positions, MaxExtract) :
        /\ isInt => Len(list) = 1
        /\ ext = [number |-> number, isInt |-> isInt, list |-> list, pc |-> "called",
                  err |-> "none", val |-> 0]
        /\ gen = NoGen
        /\ NoCircuit
        /\ NoObjects
        /\ NoProtocol

\* the call runs to its return or to the exception it raises
ExtractBitsCall ==
    /\ ext.pc = "called"
    /\ LET o == IF ext.isInt THEN ExtractBit(ext.number, ext.list[1])
                ELSE ExtractBits(ext.number, ext.list)
       IN  ext' = [ext EXCEPT !.pc = IF o.err = "none" THEN "returned" ELSE "raised",
                              !.err = o.err,
                              !.val = IF o.err = "none" THEN o.val ELSE 0]
    /\ UNCHANGED <<gen, objVars, heap, prot>>

NextExtract == ExtractBitsCall

SpecExtract == InitExtract /\ [][NextExtract]_vars

\* the msr_list arguments given to counts: None, or a list of positions
MsrArgs ==
    {[none |-> TRUE, list |-> <<>>]}
      \cup {[none |-> FALSE, list |-> l] : l \in SeqsUpTo(Positions, MaxPosList)}

RECURSIVE PrintAll(_, _)
\* the first loop of counts over entries 1..k of the result: one line, index
\* and squared amplitude, for every digit > 0.  A squared amplitude is
\* num / 2^e
PrintAll(x, k) ==
    IF k = 0 THEN <<>>
    ELSE IF x.v[k] > 0
         THEN Append(PrintAll(x, k - 1), [key |-> k - 1, num |-> x.v[k] * x.v[k], e |-> x.e])
         ELSE PrintAll(x, k - 1)

RECURSIVE Accumulate(_, _, _, _)
\* the second loop of counts from index i on: msr is the dict so far, in
\* insertion order
Accumulate(x, list, i, msr) ==
    IF i >= Len(x.v) THEN [err |-> "none", msr |-> msr]
    ELSE LET b == ExtractBits(i, list)
             prb == x.v[i + 1] * x.v[i + 1]
             at == {k \in 1..Len(msr) : msr[k].key = b.val}
         IN  IF b.err # "none" THEN [err |-> b.err, msr |-> msr]
             ELSE IF at # {}
             THEN Accumulate(x, list, i + 1,
                             [k \in 1..Len(msr) |->
                                IF k \in at THEN [msr[k] EXCEPT !.num = @ + prb] ELSE msr[k]])
             ELSE Accumulate(x, list, i + 1,
                             Append(msr, [key |-> b.val, num |-> prb, e |-> x.e]))

\* the entries of the dict that are printed: prb > 0
Positive(msr) == SelectSeq(msr, LAMBDA l : l.num > 0)

\* counts(auto_run, msr_list)
Counts(auto_run, msr) ==
    /\ alive
    /\ LET r == IF auto_run THEN RunOutcome(state, gates)
                ELSE [err |-> "none", vec |-> ResultProperty]
           all == msr.none \/ Len(msr.list) = 0
           a == IF r.err # "none" \/ all THEN [err |-> r.err, msr |-> <<>>]
                ELSE Accumulate(r.vec, msr.list, 0, <<>>)
       IN  /\ last' = [op |-> "counts", err |-> a.err,
                       arg |-> IF msr.none THEN NoArg ELSE ListArg(msr.list)]
           /\ result' = IF auto_run /\ r.err = "none" THEN <<r.vec>> ELSE result
           /\ ret' = IF r.err # "none" THEN NoRet
                     ELSE [kind |-> "counts", val |-> 0,
                           lines |-> IF a.err # "none" THEN <<>>
                                     ELSE IF all THEN PrintAll(r.vec, Len(r.vec.v))
                                     ELSE Positive(a.msr)]
    /\ UNCHANGED <<alive, n, state, gates, identity, sim, obj, genVars>>

Init ==
    /\ gen = NoGen
    /\ NoCircuit
    /\ Idle

Next ==
    \/ \E arg \in InitArgs : InitializeState(arg)
    \/ \E s \in CircuitStrings : InitializeCircuit(s)
    \/ \E pos \in PosArgs : X(pos)
    \/ \E pos \in PosArgs : H(pos)
    \/ \E c, t \in Positions : Cx(c, t)
    \/ \E c1, c2, t \in Positions : Ccx(c1, c2, t)
    \/ Run

Spec == Init /\ [][Next]_vars

\* ------------------------------------------------------------------- mcx
RECURSIVE RfbsLoop(_, _, _, _, _, _)
\* the for loop of range_fixed_bits_switch run to its end: acc is the sequence
\* of the pairs yielded so far, out the last second element, left the number
\* of iterations to come
RfbsLoop(n_bits, switch_bit, mask, out, left, acc) ==
    IF left = 0 THEN acc
    ELSE LET o == NextOut(out, mask)
         IN  RfbsLoop(n_bits, switch_bit, mask, o, left - 1,
                      Append(acc, <<RfbsClear(o, n_bits, switch_bit), o>>))

\* a variant of RfbsPairs without the pair yielded before the loop
RfbsPairsLoopOnly(n_bits, fixed_bits, switch_bit) ==
    IF RfbsOutOfRange(n_bits, fixed_bits, switch_bit)
    THEN [err |-> "OutOfRangeError", pairs |-> <<>>]
    ELSE IF NegativeShift(n_bits, fixed_bits \cup {switch_bit})
    THEN [err |-> "ValueError", pairs |-> <<>>]
    ELSE LET mask == RfbsMask(n_bits, fixed_bits, switch_bit)
         IN  [err |-> "none",
              pairs |-> RfbsLoop(n_bits, switch_bit, mask, mask,
                                 LoopCount(n_bits, Cardinality(fixed_bits) + 1), <<>>)]

\* list(range_fixed_bits_switch(n_bits, fixed_bits, switch_bit)): every pair
\* the generator yields, in order, or the exception its first next() raises
RfbsPairs(n_bits, fixed_bits, switch_bit) ==
    IF RfbsOutOfRange(n_bits, fixed_bits, switch_bit)
    THEN [err |-> "OutOfRangeError", pairs |-> <<>>]
    ELSE IF NegativeShift(n_bits, fixed_bits \cup {switch_bit})
    THEN [err |-> "ValueError", pairs |-> <<>>]
    ELSE LET mask == RfbsMask(n_bits, fixed_bits, switch_bit)
         IN  [err |-> "none",
              pairs |-> RfbsLoop(n_bits, switch_bit, mask, mask,
                                 LoopCount(n_bits, Cardinality(fixed_bits) + 1),
                                 <<<<RfbsClear(mask, n_bits, switch_bit), mask>>>>)]

RECURSIVE SwapPairs(_, _, _)
\* rows idx0 and idx1 of m swapped for every pair from pair k on; a row that
\* does not exist raises IndexError
SwapPairs(m, pairs, k) ==
    IF k > Len(pairs) THEN [err |-> "none", m |-> m]
    ELSE IF pairs[k][1] >= Len(m) \/ pairs[k][2] >= Len(m)
    THEN [err |-> "IndexError", m |-> m]
    ELSE SwapPairs(SwapRows(m, pairs[k][1], pairs[k][2]), pairs, k + 1)

\* the body of mcx up to the append: the identity with rows idx0 and idx1
\* swapped for every pair of range_fixed_bits_switch(n, c_bits, t)
McxOutcome(ident, nn, c_bits, t) ==
    LET p == RfbsPairs(nn, c_bits, t)
    IN  IF p.err # "none" THEN [err |-> p.err, m |-> ident.m]
        ELSE SwapPairs(ident.m, p.pairs, 1)

RECURSIVE AscendingSeq(_)
\* the elements of a set of integers in ascending order
AscendingSeq(S) ==
    IF S = {} THEN <<>>
    ELSE LET top == CHOOSE x \in S : \A y \in S : y <= x
         IN  Append(AscendingSeq(S \ {top}), top)

\* the arguments of mcx: the control positions and the target
McxArg(c_bits, t) == [kind |-> "mcx", s |-> <<>>, l |-> AscendingSeq(c_bits), i |-> t]

\* mcx(c_bits, t)
Mcx(c_bits, t) ==
    /\ alive
    /\ Len(gates) < MaxGates
    /\ LET o == McxOutcome(identity, n, c_bits, t)
       IN  /\ last' = [op |-> "mcx", err |-> o.err, arg |-> McxArg(c_bits, t)]
           /\ gates' = IF o.err = "none"
                       THEN Append(gates, [e |-> identity.e, m |-> o.m]) ELSE gates
           /\ sim' = IF o.err = "none" THEN SimControlled(AscendingSeq(c_bits), t) ELSE sim
    /\ ret' = NoRet
    /\ UNCHANGED <<alive, n, state, result, identity, obj, genVars>>

\* one QCLCircuit and mcx
NextMcx ==
    \/ \E arg \in InitArgs : NewCircuit(arg)
    \/ \E c_bits \in SUBSET Positions : \E t \in Positions : Mcx(c_bits, t)

SpecMcx == Init /\ [][NextMcx]_vars

\* one QCLCircuit, every gate method and run
NextGates ==
    \/ \E arg \in InitArgs : NewCircuit(arg)
    \/ \E pos \in PosArgs : X(pos)
    \/ \E pos \in PosArgs : H(pos)
    \/ \E c, t \in Positions : Cx(c, t)
    \/ \E c1, c2, t \in Positions : Ccx(c1, c2, t)
    \/ \E q1, q2, t \in Positions : Or(q1, q2, t)
    \/ \E i, j \in Positions : Swap(i, j)
    \/ Run

SpecGates == Init /\ [][NextGates]_vars

\* circuit.n = k, the public setter: stores _n, then computes _identity =
\* tp([Gate.I] * k); for k <= 0 the list is empty and tp raises ValueError
\* after _n is stored.  The state vector and the gate list are not touched.
SetN(k) ==
    /\ alive
    /\ n' = k
    /\ identity' = IF k >= 1 THEN IdentityOfSize(k) ELSE identity
    /\ last' = [op |-> "n", err |-> IF k >= 1 THEN "none" ELSE "ValueError", arg |-> NoArg]
    /\ sim' = 0 - 1
    /\ ret' = NoRet
    /\ UNCHANGED <<alive, state, gates, result, obj, genVars>>

\* one QCLCircuit: (re-)initialization by a number of qubits, gates, run and
\* assignments to n
NextSetN ==
    \/ \E k \in 0..MaxBits : InitializeState(IntArg(k))
    \/ \E pos \in PosArgs : X(pos)
    \/ \E c, t \in Positions : Cx(c, t)
    \/ Run
    \/ \E k \in 0..MaxBits : SetN(k)

SpecSetN == Init /\ [][NextSetN]_vars

\* one object of QCLCircuit or of a derived class, the compound gates and the
\* methods of the derived classes
NextApp ==
    \/ \E arg \in InitArgs : NewCircuit(arg)
    \/ \E a, b \in BitArgs : HalfAdderCircuit(a, b)
    \/ \E a, b \in Operands : BooleanInnerProductCircuit(a, b)
    \/ \E k \in 0..MaxBits : RandomCircuit(k)
    \/ \E q1, q2, t \in Positions : Or(q1, q2, t)
    \/ \E i, j \in Positions : Swap(i, j)
    \/ Run
    \/ InnerProduct

SpecApp == Init /\ [][NextApp]_vars

\* one object of QCLCircuit or RandomCircuit, run and counts
NextCounts ==
    \/ \E arg \in InitArgs : NewCircuit(arg)
    \/ \E k \in 0..MaxBits : RandomCircuit(k)
    \/ Run
    \/ \E auto_run \in BOOLEAN : \E msr \in MsrArgs : Counts(auto_run, msr)

SpecCounts == Init /\ [][NextCounts]_vars

\* counts() and counts(msr_list=[]): no sub-register
NoMsrArgs == {[none |-> TRUE, list |-> <<>>], [none |-> FALSE, list |-> <<>>]}

\* one QCLCircuit, Hadamard and CNOT gates, run and counts over all qubits
NextCountsAll ==
    \/ \E arg \in InitArgs : NewCircuit(arg)
    \/ \E pos \in PosArgs : H(pos)
    \/ \E c, t \in Positions : Cx(c, t)
    \/ Run
    \/ \E auto_run \in BOOLEAN : \E msr \in NoMsrArgs : Counts(auto_run, msr)

SpecCountsAll == Init /\ [][NextCountsAll]_vars

\* ------------------------------------------- two circuits: array objects
\* tp(objs) on a non-empty list: v = gates[0], then v = np.kron(v, gate) for
\* every other entry; np.kron creates an array (made), a list of one entry
\* returns that entry itself
TpObject(objs, made) == IF Len(objs) = 1 THEN objs[1] ELSE made

\* expand_gate(single_gate, list) on nn >= 1 qubits, as objects
ExpandObject(nn, single_gate, list, made) ==
    LET hit == {IF list[k] < 0 THEN list[k] + nn ELSE list[k] : k \in 1..Len(list)}
    IN  TpObject([q \in 1..nn |-> IF (q - 1) \in hit THEN single_gate
                                  ELSE ClassArray("Gate.I")], made)

\* QCLCircuit(arg) for object c: np.zeros or np.array creates the state, the n
\* setter stores tp([Gate.I] * n).  When __init__ raises there is no object.
NewObject(c, arg) ==
    /\ ~heap[c].made
    /\ LET o == InitOutcome(arg)
       IN  /\ o.err = "none"
           /\ heap' = [heap EXCEPT ![c] =
                  [made |-> TRUE, n |-> o.n, state |-> NewArray(c, "state", 0),
                   identity |-> TpObject([q \in 1..o.n |-> ClassArray("Gate.I")],
                                         NewArray(c, "identity", 0)),
                   gates |-> <<>>, result |-> NoArray]]
    /\ UNCHANGED <<gen, objVars, ext, prot>>

\* self.gates.append(self.expand_gate(single_gate, i)) on object c
ObjectGate(c, single_gate, pos) ==
    /\ ~ExpandIndexError(heap[c].n, pos.list)
    /\ heap' = [heap EXCEPT ![c].gates =
                  Append(@, ExpandObject(heap[c].n, single_gate, pos.list,
                                         NewArray(c, "gate", Len(heap[c].gates) + 1)))]
    /\ UNCHANGED <<gen, objVars, ext, prot>>

\* x(i) on object c
ObjectX(c, pos) ==
    /\ heap[c].made
    /\ Len(heap[c].gates) < MaxGates
    /\ ObjectGate(c, ClassArray("Gate.X"), pos)

\* h(i) on object c
ObjectH(c, pos) ==
    /\ heap[c].made
    /\ Len(heap[c].gates) < MaxGates
    /\ ObjectGate(c, ClassArray("Gate.H"), pos)

\* cx(ctl, t) on object c: self._identity.copy() creates the operator
ObjectCx(c, ctl, t) ==
    /\ heap[c].made
    /\ Len(heap[c].gates) < MaxGates
    /\ CxOutcome(IdentityOfSize(heap[c].n), heap[c].n, 2 ^ heap[c].n, ctl, t).err = "none"
    /\ heap' = [heap EXCEPT ![c].gates =
                  Append(@, NewArray(c, "gate", Len(heap[c].gates) + 1))]
    /\ UNCHANGED <<gen, objVars, ext, prot>>

\* run() on object c: result = self._state, then result = np.matmul(result,
\* gate) for every gate; matmul creates an array
ObjectRun(c) ==
    /\ heap[c].made
    /\ heap' = [heap EXCEPT ![c].result =
                  IF heap[c].gates = <<>> THEN heap[c].state
                  ELSE NewArray(c, "result", 0)]
    /\ UNCHANGED <<gen, objVars, ext, prot>>

InitObjects ==
    /\ gen = NoGen
    /\ NoCircuit
    /\ NoExtract
    /\ NoObjects
    /\ NoProtocol

NextObjects ==
    \/ \E c \in Circuits : \E arg \in InitArgs : NewObject(c, arg)
    \/ \E c \in Circuits : \E pos \in PosArgs : ObjectX(c, pos)
    \/ \E c \in Circuits : \E pos \in PosArgs : ObjectH(c, pos)
    \/ \E c \in Circuits : \E ctl, t \in Positions : ObjectCx(c, ctl, t)
    \/ \E c \in Circuits : ObjectRun(c)

SpecObjects == InitObjects /\ [][NextObjects]_vars

\* --------------------------------------------------------- Protocol, Agent
\* the callbacks given to add_event and set_events
Callbacks == {"f"}

\* the events whose callback lists add_event and set_events are called for
ChangedEvents == {"start", "stop"}

\* an entry of Protocol._events[ev]: the list object of an agent that on()
\* appended.  While live it is the agent's current list for ev, and its
\* content is that list's; once set_events has replaced the agent's list the
\* entry is the replaced object and keeps the content it had
LiveEntry(a) == [agent |-> a, live |-> TRUE, content |-> <<>>]

\* the content of an entry of p.events[ev]
ContentOf(p, ev, entry) == IF entry.live THEN p.lists[entry.agent][ev] ELSE entry.content

\* the orders in which a for loop may walk the set S
Orders(S) ==
    {o \in [1..Cardinality(S) -> S] : \A i, j \in 1..Cardinality(S) : i # j => o[i] # o[j]}

\* the calls on(ev, agent.events[ev]) or off(...) of the two nested loops of
\* start and stop: every agent in the given order, every event in dict order
LoopCalls(order) ==
    [k \in 1..(Len(order) * Len(EventOrder)) |->
        [agent |-> order[((k - 1) \div Len(EventOrder)) + 1],
         ev |-> EventOrder[((k - 1) % Len(EventOrder)) + 1]]]

RECURSIVE OnAll(_, _, _)
\* EventEmitter.on for the calls from call k on: self._events[ev].append(list)
OnAll(events, calls, k) ==
    IF k > Len(calls) THEN events
    ELSE OnAll([events EXCEPT ![calls[k].ev] = Append(@, LiveEntry(calls[k].agent))],
               calls, k + 1)

\* list.remove(x) finds the first entry equal to x: lists are equal when their
\* contents are.  The set holds that entry's index, or nothing
FirstEqual(p, events, call) ==
    {k \in 1..Len(events[call.ev]) :
        /\ ContentOf(p, call.ev, events[call.ev][k]) = p.lists[call.agent][call.ev]
        /\ \A j \in 1..(k - 1) :
             ContentOf(p, call.ev, events[call.ev][j]) # p.lists[call.agent][call.ev]}

\* the sequence s without its entry k
WithoutEntry(s, k) == [j \in 1..(Len(s) - 1) |-> IF j < k THEN s[j] ELSE s[j + 1]]

RECURSIVE OffAll(_, _, _, _)
\* EventEmitter.off for the calls from call k on: self._events[ev].remove(list)
\* raises ValueError when no entry is equal to the list, and the loops end
OffAll(p, events, calls, k) ==
    IF k > Len(calls) THEN [err |-> "none", events |-> events]
    ELSE LET at == FirstEqual(p, events, calls[k])
         IN  IF at = {} THEN [err |-> "ValueError", events |-> events]
             ELSE OffAll(p, [events EXCEPT ![calls[k].ev] =
                                 WithoutEntry(@, CHOOSE i \in at : TRUE)],
                         calls, k + 1)

\* add_agent(*S)
AddAgent(S) ==
    /\ prot' = [prot EXCEPT !.agents = @ \cup S,
                            !.last = [op |-> "add_agent", err |-> "none"]]
    /\ UNCHANGED <<gen, objVars, ext, heap>>

\* start(): raises when already running; else sets _running, registers every
\* list of every participant and emits "start" (the callbacks change nothing
\* of the protocol).  The set of agents is walked in some order
Start ==
    /\ IF prot.running
       THEN prot' = [prot EXCEPT !.last = [op |-> "start", err |-> "Exception"]]
       ELSE \E order \in Orders(prot.agents) :
              prot' = [prot EXCEPT !.running = TRUE,
                                   !.events = OnAll(@, LoopCalls(order), 1),
                                   !.last = [op |-> "start", err |-> "none"]]
    /\ UNCHANGED <<gen, objVars, ext, heap>>

\* stop(): emits "stop", removes every list of every participant, and only
\* then clears _running
Stop ==
    /\ \E order \in Orders(prot.agents) :
         LET o == OffAll(prot, prot.events, LoopCalls(order), 1)
         IN  prot' = [prot EXCEPT !.events = o.events,
                                  !.running = IF o.err = "none" THEN FALSE ELSE @,
                                  !.last = [op |-> "stop", err |-> o.err]]
    /\ UNCHANGED <<gen, objVars, ext, heap>>

\* Agent.add_event(ev, cb): appends to the agent's list in place, so an entry
\* of the protocol that is this list changes with it
AddEvent(a, ev, cb) ==
    /\ Len(prot.lists[a][ev]) < MaxCallbacks
    /\ prot' = [prot EXCEPT !.lists[a][ev] = Append(@, cb),
                            !.last = [op |-> "add_event", err |-> "none"]]
    /\ UNCHANGED <<gen, objVars, ext, heap>>

\* Agent.set_events(ev, callbacks): the agent's list becomes another list
\* object (a callback that is not a list is wrapped in one); an entry of the
\* protocol that was the agent's list keeps the replaced object
SetEvents(a, ev, callbacks) ==
    /\ prot' = [prot EXCEPT
                  !.events[ev] = [k \in 1..Len(@) |->
                                    IF @[k].live /\ @[k].agent = a
                                    THEN [agent |-> a, live |-> FALSE,
                                          content |-> prot.lists[a][ev]]
                                    ELSE @[k]],
                  !.lists[a][ev] = callbacks,
                  !.last = [op |-> "set_events", err |-> "none"]]
    /\ UNCHANGED <<gen, objVars, ext, heap>>

InitProtocol ==
    /\ gen = NoGen
    /\ NoCircuit
    /\ NoExtract
    /\ NoObjects
    /\ NoProtocol

NextProtocol ==
    \/ \E S \in (SUBSET Agents) \ {{}} : AddAgent(S)
    \/ Start
    \/ Stop
    \/ \E a \in Agents : \E ev \in ChangedEvents : \E cb \in Callbacks : AddEvent(a, ev, cb)
    \/ \E a \in Agents : \E ev \in ChangedEvents :
         \E callbacks \in SeqsUpTo(Callbacks, MaxCallbacks) : SetEvents(a, ev, callbacks)

SpecProtocol == InitProtocol /\ [][NextProtocol]_vars

\* ====================================================================== claims

\* every fixed position of the running call lies in [0, n_bits)
ValidFixed == gen.fixed_bits \subseteq 0..(gen.n_bits - 1)

\* the switch bit lies in [0, n_bits) and is not a fixed bit
ValidSwitch ==
    /\ ValidFixed
    /\ gen.switch_bit \in 0..(gen.n_bits - 1)
    /\ gen.switch_bit \notin gen.fixed_bits

\* idx has a 1 at every big-endian position of F
FixedOnes(idx, n_bits, F) == \A p \in F : BitBE(idx, n_bits, p) = 1

\* the indices of [0, 2^n_bits) with a 1 at every position of F
ExpectedIdx(n_bits, F) == {i \in 0..((2 ^ n_bits) - 1) : FixedOnes(i, n_bits, F)}

\* C1: for n_bits > 0 and fixed positions all in [0, n_bits), range_fixed_bits
\* raises nothing and yields, strictly ascending, only indices of [0, 2^n_bits)
\* whose fixed bits are all 1; when it is exhausted it has yielded every such
\* index, 2^(n_bits - |fixed_bits|) of them.
C1_RangeFixedBitsEnumerates ==
    (gen.fn = "range_fixed_bits" /\ ValidFixed) =>
        LET y == gen.yielded
            expected == ExpectedIdx(gen.n_bits, gen.fixed_bits)
        IN  /\ gen.pc # "raised"
            /\ \A k \in 1..Len(y) : y[k] \in expected
            /\ \A k \in 1..(Len(y) - 1) : y[k] < y[k + 1]
            /\ gen.pc = "done" =>
                 /\ {y[k] : k \in 1..Len(y)} = expected
                 /\ Len(y) = 2 ^ (gen.n_bits - Cardinality(gen.fixed_bits))

\* range_fixed_bits(3, {0}) has finished after yielding 0b100, 0b101, 0b110, 0b111
C1_Witness ==
    /\ gen.fn = "range_fixed_bits"
    /\ gen.pc = "done"
    /\ gen.n_bits = 3
    /\ gen.fixed_bits = {0}
    /\ gen.yielded = <<4, 5, 6, 7>>

\* C2: for fixed positions in [0, n_bits) and a switch bit in [0, n_bits) that
\* is not fixed, range_fixed_bits_switch raises nothing and yields pairs
\* (idx0, idx1), ascending in idx1, where idx1 has all fixed bits and the switch
\* bit 1 and idx0 is idx1 with only the switch bit cleared; no index occurs in
\* two pairs; when exhausted it has yielded one pair for every such idx1,
\* 2^(n_bits - |fixed_bits| - 1) pairs.
C2_RangeFixedBitsSwitchPairs ==
    (gen.fn = "range_fixed_bits_switch" /\ ValidSwitch) =>
        LET y == gen.yielded
            s == gen.switch_bit
            expected == ExpectedIdx(gen.n_bits, gen.fixed_bits \cup {s})
        IN  /\ gen.pc # "raised"
            /\ \A k \in 1..Len(y) :
                 /\ y[k][2] \in expected
                 /\ y[k][1] = y[k][2] - (2 ^ (gen.n_bits - s - 1))
                 /\ FixedOnes(y[k][1], gen.n_bits, gen.fixed_bits)
                 /\ BitBE(y[k][1], gen.n_bits, s) = 0
            /\ \A k \in 1..(Len(y) - 1) : y[k][2] < y[k + 1][2]
            /\ \A j, k \in 1..Len(y) :
                 /\ y[j][1] # y[k][2]
                 /\ j # k => (y[j][1] # y[k][1] /\ y[j][2] # y[k][2])
            /\ gen.pc = "done" =>
                 /\ {y[k][2] : k \in 1..Len(y)} = expected
                 /\ Len(y) = 2 ^ (gen.n_bits - Cardinality(gen.fixed_bits) - 1)

\* range_fixed_bits_switch(3, {0}, 1) has finished after yielding
\* (0b100, 0b110), (0b101, 0b111)
C2_Witness ==
    /\ gen.fn = "range_fixed_bits_switch"
    /\ gen.pc = "done"
    /\ gen.n_bits = 3
    /\ gen.fixed_bits = {0}
    /\ gen.switch_bit = 1
    /\ gen.yielded = <<<<4, 6>>, <<5, 7>>>>

\* C3: with a fixed position >= n_bits, or for range_fixed_bits_switch a switch
\* bit >= n_bits, the generator yields nothing: once advanced it has raised
\* OutOfRangeError.
C3_OutOfRangeRaisesBeforeYield ==
    ( \/ (gen.fn = "range_fixed_bits" /\ \E i \in gen.fixed_bits : i >= gen.n_bits)
      \/ (gen.fn = "range_fixed_bits_switch"
            /\ ((\E i \in gen.fixed_bits : i >= gen.n_bits) \/ gen.switch_bit >= gen.n_bits)) )
    => /\ gen.yielded = <<>>
       /\ gen.pc \in {"created", "raised"}
       /\ gen.pc = "raised" => gen.error = "OutOfRangeError"

\* range_fixed_bits_switch with valid fixed bits and switch_bit = n_bits has raised
C3_Witness ==
    /\ gen.fn = "range_fixed_bits_switch"
    /\ ValidFixed
    /\ gen.switch_bit = gen.n_bits
    /\ gen.pc = "raised"
    /\ gen.error = "OutOfRangeError"
    /\ gen.yielded = <<>>

\* the exceptions that are range errors: OutOfRangeError is an IndexError
RangeErrors == {"IndexError", "OutOfRangeError"}

\* C4: on a circuit of n >= 1 qubits, a call of x, h, cx or ccx with a control
\* or target position >= n raises a range error and leaves the gate list as it
\* was.
C4_PositionBeyondRegisterIsRangeError ==
    [][ (alive /\ n >= 1) =>
          /\ \A pos \in PosArgs :
               ((X(pos) \/ H(pos)) /\ \E k \in 1..Len(pos.list) : pos.list[k] >= n)
                 => (last'.err \in RangeErrors /\ gates' = gates)
          /\ \A c, t \in Positions :
               (Cx(c, t) /\ (c >= n \/ t >= n))
                 => (last'.err \in RangeErrors /\ gates' = gates)
          /\ \A c1, c2, t \in Positions :
               (Ccx(c1, c2, t) /\ (c1 >= n \/ c2 >= n \/ t >= n))
                 => (last'.err \in RangeErrors /\ gates' = gates) ]_vars

\* C5: a negative position is rejected with a range error: the two generators
\* yield nothing for a negative fixed or switch position, and x, h, cx, ccx
\* raise a range error and append nothing for a negative position.
C5_NegativePositionIsRangeError ==
    /\ []( ( \/ (gen.fn \in {"range_fixed_bits", "range_fixed_bits_switch"}
                   /\ \E i \in gen.fixed_bits : i < 0)
             \/ (gen.fn = "range_fixed_bits_switch" /\ gen.switch_bit < 0) )
           => /\ gen.yielded = <<>>
              /\ gen.pc \in {"created", "raised"}
              /\ gen.pc = "raised" => gen.error \in RangeErrors )
    /\ [][ (alive /\ n >= 1) =>
             /\ \A pos \in PosArgs :
                  ((X(pos) \/ H(pos)) /\ \E k \in 1..Len(pos.list) : pos.list[k] < 0)
                    => (last'.err \in RangeErrors /\ gates' = gates)
             /\ \A c, t \in Positions :
                  (Cx(c, t) /\ (c < 0 \/ t < 0))
                    => (last'.err \in RangeErrors /\ gates' = gates)
             /\ \A c1, c2, t \in Positions :
                  (Ccx(c1, c2, t) /\ (c1 < 0 \/ c2 < 0 \/ t < 0))
                    => (last'.err \in RangeErrors /\ gates' = gates) ]_vars

\* C6: after QCLCircuit(i) / _initialize_state(i) with an integer i > 0 the
\* call has raised nothing, n = i, the gate list is empty and the state vector
\* has 2^i entries: 1 at index 0 and 0 elsewhere.
C6_IntInitIsAllZeroState ==
    (last.op = "_initialize_state" /\ last.arg.kind = "int" /\ last.arg.i > 0) =>
        /\ last.err = "none"
        /\ alive
        /\ n = last.arg.i
        /\ gates = <<>>
        /\ state.e = 0
        /\ Len(state.v) = 2 ^ last.arg.i
        /\ \A k \in 1..Len(state.v) : state.v[k] = (IF k = 1 THEN 1 ELSE 0)

\* QCLCircuit(3) has been constructed
C6_Witness ==
    /\ last = [op |-> "_initialize_state", err |-> "none", arg |-> IntArg(3)]
    /\ n = 3
    /\ state = [e |-> 0, v |-> <<1, 0, 0, 0, 0, 0, 0, 0>>]

\* a non-empty string of binary digits
BinaryDigits(s) == Len(s) >= 1 /\ \A i \in 1..Len(s) : s[i] \in {"0", "1"}

\* C7: after QCLCircuit(s) / _initialize_state(s) with a non-empty string s over
\* {0, 1} the call has raised nothing, n = len(s) and the state vector has
\* 2^len(s) entries: 1 at the index s spells (first character most
\* significant) and 0 elsewhere.
C7_StringInitIsBasisState ==
    (last.op = "_initialize_state" /\ last.arg.kind = "str" /\ BinaryDigits(last.arg.s)) =>
        /\ last.err = "none"
        /\ alive
        /\ n = Len(last.arg.s)
        /\ state.e = 0
        /\ Len(state.v) = 2 ^ Len(last.arg.s)
        /\ \A k \in 1..Len(state.v) :
             state.v[k] = (IF k - 1 = BigEndianValue(last.arg.s) THEN 1 ELSE 0)

\* QCLCircuit("10") has been constructed: amplitude 1 at index 2
C7_Witness ==
    /\ last = [op |-> "_initialize_state", err |-> "none", arg |-> StrArg(<<"1", "0">>)]
    /\ n = 2
    /\ state = [e |-> 0, v |-> <<0, 0, 1, 0>>]

\* k is a power of two
IsPowerOfTwo(k) == \E j \in 0..k : 2 ^ j = k

\* C8: initialization rejects every invalid argument with the matching error:
\* a string that is empty or holds a character outside {0, 1} raises
\* BinaryStringError, a list whose length is 0 or no power of two raises
\* PowerOfTwoLengthError, an all-zero list of valid length raises a ValueError,
\* an integer <= 0 raises PositiveValueError.
C8_InvalidInitRaisesMatchingError ==
    (last.op = "_initialize_state") =>
        /\ (last.arg.kind = "str" /\ ~BinaryDigits(last.arg.s))
             => last.err = "BinaryStringError"
        /\ (last.arg.kind = "list" /\ ~IsPowerOfTwo(Len(last.arg.l)))
             => last.err = "PowerOfTwoLengthError"
        /\ (last.arg.kind = "list" /\ IsPowerOfTwo(Len(last.arg.l)) /\ AllZero(last.arg.l))
             => last.err = "ValueError"
        /\ (last.arg.kind = "int" /\ last.arg.i <= 0)
             => last.err = "PositiveValueError"

\* C9: run() applies the operators in insertion order: when the circuit was
\* initialized to a basis state and every call since was an x, cx or ccx with
\* distinct in-range positions, run() stores the basis vector of the index
\* obtained by performing the calls' bit flips in call order.
C9_RunAppliesGatesInCallOrder ==
    (last.op = "run" /\ last.err = "none" /\ sim >= 0) =>
        result = <<BasisVec(2 ^ n, sim)>>

\* x(0) then cx(0, 1) on 000 has been run and gave 110
C9_Witness ==
    /\ last.op = "run"
    /\ n = 3
    /\ state = BasisVec(8, 0)
    /\ gates = <<ExpandGate(3, GateX, <<0>>).g,
                 [e |-> 0, m |-> CxOutcome(IdentityOfSize(3), 3, 8, 0, 1).m]>>
    /\ sim = 6
    /\ result = <<BasisVec(8, 6)>>

\* C10: a run() that directly follows a run() stores and returns the same
\* vector, and run() changes neither the initial state vector nor the gate list.
C10_RunIsIdempotent ==
    [][ Run => /\ state' = state
               /\ gates' = gates
               /\ (last.op = "run" /\ last.err = "none")
                    => (last'.err = "none" /\ result' = result) ]_vars

\* run() has been called on a circuit whose gates change the state
C10_Witness ==
    /\ last.op = "run"
    /\ last.err = "none"
    /\ Len(gates) = 2
    /\ result # <<state>>

\* C11: while no run() has occurred since the construction or the last
\* re-initialization, reading result gives the current initial state vector:
\* right after _initialize_state on an existing object, or after an
\* _initialize_circuit that was accepted, no earlier run's vector is stored and
\* result is the state; and this stays so over every call that is not run().
C11_ResultFallsBackToInitialState ==
    /\ []( ( /\ alive
             /\ \/ last.op = "_initialize_state"
                \/ (last.op = "_initialize_circuit" /\ last.err = "none") )
           => (result = <<>> /\ ResultProperty = state) )
    /\ [][ (alive /\ result = <<>> /\ last'.op # "run")
             => (result' = <<>> /\ ResultProperty' = state') ]_vars

\* _initialize_circuit("1h") has replaced the state of a 2-qubit circuit and no
\* run has followed
C11_Witness ==
    /\ alive
    /\ last.op = "_initialize_circuit"
    /\ last.err = "none"
    /\ n = 2
    /\ Len(gates) = 2
    /\ gates[2] = ExpandGate(2, GateH, <<1>>).g
    /\ ResultProperty = BasisVec(4, 0)

\* the sequence gs without its entries k and k + 1
WithoutPair(gs, k) == SubSeq(gs, 1, k - 1) \o SubSeq(gs, k + 2, Len(gs))

\* C12: X is self-inverse: whenever the gate list holds the operator of x(i)
\* twice in a row, for a position i in [0, n), run() computes the same vector
\* as it does for the gate list without those two operators.
C12_XTwiceIsIdentity ==
    alive =>
        \A i \in 0..(n - 1) : \A k \in 1..(Len(gates) - 1) :
            (gates[k] = ExpandGate(n, GateX, <<i>>).g /\ gates[k + 1] = gates[k])
                => RunOutcome(state, gates) = RunOutcome(state, WithoutPair(gates, k))

\* x(1), x(1) on the 2-qubit state |10> has been run and gave the initial state
\* back
C12_Witness ==
    /\ alive
    /\ n = 2
    /\ state = BasisVec(4, 2)
    /\ gates = <<ExpandGate(2, GateX, <<1>>).g, ExpandGate(2, GateX, <<1>>).g>>
    /\ last.op = "run"
    /\ last.err = "none"
    /\ result = <<state>>

\* idx with big-endian bit t negated when every control bit of idx is 1
ControlledFlip(idx, nn, controls, t) ==
    IF \A k \in 1..Len(controls) : BitBE(idx, nn, controls[k]) = 1
    THEN FlipBit(idx, nn, t) ELSE idx

\* the operator g sends every basis vector i of an nn-qubit register to the
\* basis vector of ControlledFlip(i), and has 2^nn rows
IsControlledFlip(g, nn, controls, t) ==
    /\ Len(g.m) = 2 ^ nn
    /\ \A i \in 0..((2 ^ nn) - 1) :
         VecMat(BasisVec(2 ^ nn, i), g) = BasisVec(2 ^ nn, ControlledFlip(i, nn, controls, t))

\* C13: for distinct positions c, t in [0, n), cx(c, t) raises nothing and
\* appends one operator, which sends every basis index i to i with bit t
\* flipped when bit c of i is 1 and to i itself when bit c is 0.
C13_CxFlipsTargetWhenControlIsOne ==
    [][ \A c, t \in Positions :
          ( /\ last'.op = "cx"
            /\ c # t /\ c \in 0..(n - 1) /\ t \in 0..(n - 1)
            /\ Cx(c, t) )
          => /\ last'.err = "none"
             /\ Len(gates') = Len(gates) + 1
             /\ SubSeq(gates', 1, Len(gates)) = gates
             /\ IsControlledFlip(gates'[Len(gates')], n, <<c>>, t) ]_vars

\* cx(0, 2) has been called on the 3-qubit all-zero state: the register still
\* reads 000
C13_Witness ==
    /\ alive
    /\ n = 3
    /\ state = BasisVec(8, 0)
    /\ last = [op |-> "cx", err |-> "none", arg |-> NoArg]
    /\ gates = <<[e |-> 0, m |-> CxOutcome(IdentityOfSize(3), 3, 8, 0, 2).m]>>
    /\ sim = 0

\* C14: for pairwise distinct positions c1, c2, t in [0, n), ccx(c1, c2, t)
\* raises nothing and appends one operator, which flips bit t of a basis index
\* exactly when bits c1 and c2 of the index are both 1 and leaves every other
\* basis index as it is.
C14_CcxFlipsTargetWhenBothControlsAreOne ==
    [][ \A c1, c2, t \in Positions :
          ( /\ last'.op = "ccx"
            /\ c1 # c2 /\ c1 # t /\ c2 # t
            /\ c1 \in 0..(n - 1) /\ c2 \in 0..(n - 1) /\ t \in 0..(n - 1)
            /\ Ccx(c1, c2, t) )
          => /\ last'.err = "none"
             /\ Len(gates') = Len(gates) + 1
             /\ SubSeq(gates', 1, Len(gates)) = gates
             /\ IsControlledFlip(gates'[Len(gates')], n, <<c1, c2>>, t) ]_vars

\* x([0, 1]) then ccx(0, 1, 2) have been called on the 3-qubit all-zero state:
\* the register reads 111
C14_Witness ==
    /\ alive
    /\ n = 3
    /\ state = BasisVec(8, 0)
    /\ last = [op |-> "ccx", err |-> "none", arg |-> NoArg]
    /\ gates = <<ExpandGate(3, GateX, <<0, 1>>).g,
                 [e |-> 0, m |-> CcxOutcome(IdentityOfSize(3), 3, 8, 0, 1, 2).m]>>
    /\ sim = 7

\* the last k entries of the sequence gs
LastGates(gs, k) == SubSeq(gs, Len(gs) - k + 1, Len(gs))

\* the operators gs, applied in order, send every basis vector i of an
\* nn-qubit register to the basis vector of f[i]
SendsBasisTo(gs, nn, f) ==
    \A i \in 0..((2 ^ nn) - 1) :
        RunFold(BasisVec(2 ^ nn, i), gs, 1) = [err |-> "none", vec |-> BasisVec(2 ^ nn, f[i])]

\* idx with bit t replaced by t XOR (q1 OR q2)
OrEffect(idx, nn, q1, q2, t) ==
    IF BitBE(idx, nn, q1) = 1 \/ BitBE(idx, nn, q2) = 1 THEN FlipBit(idx, nn, t) ELSE idx

\* C15: for pairwise distinct positions q1, q2, t in [0, n), or_(q1, q2, t)
\* raises nothing and appends three operators, those of cx(q1, t), cx(q2, t)
\* and ccx(q1, q2, t) in that order; applied in order they send every basis
\* index to the index with t' = t XOR (q1 OR q2) and every other bit unchanged.
C15_OrIsTwoCnotsAndToffoli ==
    [][ \A q1, q2, t \in Positions :
          ( /\ last'.op = "or_"
            /\ q1 # q2 /\ q1 # t /\ q2 # t
            /\ q1 \in 0..(n - 1) /\ q2 \in 0..(n - 1) /\ t \in 0..(n - 1)
            /\ Or(q1, q2, t) )
          => /\ last'.err = "none"
             /\ Len(gates') = Len(gates) + 3
             /\ SubSeq(gates', 1, Len(gates)) = gates
             /\ IsControlledFlip(gates'[Len(gates) + 1], n, <<q1>>, t)
             /\ IsControlledFlip(gates'[Len(gates) + 2], n, <<q2>>, t)
             /\ IsControlledFlip(gates'[Len(gates) + 3], n, <<q1, q2>>, t)
             /\ SendsBasisTo(LastGates(gates', 3), n,
                             [i \in 0..((2 ^ n) - 1) |-> OrEffect(i, n, q1, q2, t)]) ]_vars

\* or_(0, 1, 2) has been called on a new 3-qubit circuit and the circuit run
C15_Witness ==
    /\ alive
    /\ n = 3
    /\ last.op = "run"
    /\ Len(gates) = 3
    /\ IsControlledFlip(gates[1], 3, <<0>>, 2)
    /\ IsControlledFlip(gates[2], 3, <<1>>, 2)
    /\ IsControlledFlip(gates[3], 3, <<0, 1>>, 2)
    /\ result = <<state>>

\* idx with the values of bits i and j exchanged
SwapEffect(idx, nn, i, j) ==
    IF BitBE(idx, nn, i) = BitBE(idx, nn, j) THEN idx
    ELSE FlipBit(FlipBit(idx, nn, i), nn, j)

\* C16: for distinct positions i, j in [0, n), swap(i, j) raises nothing and
\* appends three operators, those of cx(i, j), cx(j, i) and cx(i, j) in that
\* order; applied in order they send every basis index to the index with the
\* values of bits i and j exchanged and every other bit unchanged.
C16_SwapIsThreeCnots ==
    [][ \A i, j \in Positions :
          ( /\ last'.op = "swap"
            /\ i # j /\ i \in 0..(n - 1) /\ j \in 0..(n - 1)
            /\ Swap(i, j) )
          => /\ last'.err = "none"
             /\ Len(gates') = Len(gates) + 3
             /\ SubSeq(gates', 1, Len(gates)) = gates
             /\ IsControlledFlip(gates'[Len(gates) + 1], n, <<i>>, j)
             /\ IsControlledFlip(gates'[Len(gates) + 2], n, <<j>>, i)
             /\ IsControlledFlip(gates'[Len(gates) + 3], n, <<i>>, j)
             /\ SendsBasisTo(LastGates(gates', 3), n,
                             [k \in 0..((2 ^ n) - 1) |-> SwapEffect(k, n, i, j)]) ]_vars

\* swap(0, 1) has been called on QCLCircuit("10") and the circuit run: the
\* register reads 01
C16_Witness ==
    /\ alive
    /\ n = 2
    /\ state = BasisVec(4, 2)
    /\ last.op = "run"
    /\ Len(gates) = 3
    /\ IsControlledFlip(gates[2], 2, <<1>>, 0)
    /\ sim = 1
    /\ result = <<BasisVec(4, 1)>>

\* C17: for all a, b in {0, 1}, constructing HalfAdderCircuit(a, b) succeeds
\* (and sum() then returns a + b): the constructor raises nothing and leaves
\* an object.
C17_HalfAdderConstructs ==
    (last.op = "HalfAdderCircuit" /\ obj.a \in {0, 1} /\ obj.b \in {0, 1}) =>
        (last.err = "none" /\ alive)

RECURSIVE PopCount(_)
\* the number of 1 bits of k >= 0
PopCount(k) == IF k = 0 THEN 0 ELSE (k % 2) + PopCount(k \div 2)

\* the gate list is the one the constructor of the inner-product circuit built
BipGatesAsConstructed ==
    LET a_len == OperandLen(obj.a)
        b_len == OperandLen(obj.b)
    IN  Len(gates) = 2 + (IF a_len < b_len THEN a_len ELSE b_len)

\* C18: for all a, b >= 0, of equal or different bit lengths,
\* BooleanInnerProductCircuit(a, b) is constructed without error, and
\* inner_product() on it raises nothing and returns true exactly when the number
\* of bit positions, aligned at the least significant bit, where a and b both
\* have a 1 is odd.
C18_InnerProductIsParityOfAnd ==
    (obj.cls = "BooleanInnerProductCircuit" /\ obj.a >= 0 /\ obj.b >= 0) =>
        /\ last.op = "BooleanInnerProductCircuit" => (last.err = "none" /\ alive)
        /\ (last.op = "inner_product" /\ BipGatesAsConstructed) =>
              /\ last.err = "none"
              /\ ret = [kind |-> "bool", val |-> PopCount(BitAnd(obj.a, obj.b)) % 2,
                        lines |-> <<>>]

\* BooleanInnerProductCircuit(0b1, 0b11).inner_product() has returned true
C18_Witness ==
    /\ alive
    /\ obj = [cls |-> "BooleanInnerProductCircuit", a |-> 1, b |-> 3]
    /\ n = 4
    /\ Len(gates) = 3
    /\ last = [op |-> "inner_product", err |-> "none", arg |-> NoArg]
    /\ ret = [kind |-> "bool", val |-> 1, lines |-> <<>>]

\* C19: for every k >= 1 RandomCircuit(k) is constructed without error, and
\* while its gate list is the Hadamard on every position that the constructor
\* appended, run() gives a vector of 2^k entries all equal to (1/sqrt 2)^k.
C19_HadamardOnAllQubitsIsUniform ==
    (obj.cls = "RandomCircuit" /\ obj.a >= 1) =>
        /\ last.op = "RandomCircuit" => (last.err = "none" /\ alive /\ n = obj.a)
        /\ (last.op = "run" /\ gates = <<ExpandGate(n, GateH, [q \in 1..n |-> q - 1]).g>>) =>
              /\ last.err = "none"
              /\ Len(result[1].v) = 2 ^ obj.a
              /\ result[1] = [e |-> obj.a, v |-> [i \in 1..(2 ^ obj.a) |-> 1]]

\* RandomCircuit(2).run() has given four entries of (1/sqrt 2)^2 = 0.5
C19_Witness ==
    /\ alive
    /\ obj.cls = "RandomCircuit"
    /\ n = 2
    /\ last.op = "run"
    /\ result = <<[e |-> 2, v |-> <<1, 1, 1, 1>>]>>

\* the key the bits of index i at the positions of L spell, the positions
\* counted big-endian in the nn-bit register and taken in L's order
ReducedKey(i, nn, L) ==
    SumTo([k \in 1..Len(L) |-> BitBE(i, nn, L[k]) * (2 ^ (Len(L) - k))], Len(L))

\* the sum of the squared amplitudes (in units of 1 / 2^e) of x over the
\* indices whose reduced key is key
Marginal(x, nn, L, key) ==
    SumTo([i \in 1..Len(x.v) |->
             IF ReducedKey(i - 1, nn, L) = key THEN x.v[i] * x.v[i] ELSE 0], Len(x.v))

\* C20: for every non-empty list L of positions in [0, n), counts(msr_list=L)
\* completes without error, and the probability it accumulates for a reduced
\* key is the sum of the squared amplitudes over all indices whose bits at the
\* positions of L (big-endian in the n-bit register, in L's order) spell the
\* key.
C20_CountsMarginalizes ==
    ( /\ alive
      /\ last.op = "counts"
      /\ last.arg.kind = "list"
      /\ Len(last.arg.l) >= 1
      /\ \A k \in 1..Len(last.arg.l) : last.arg.l[k] \in 0..(n - 1) )
    => /\ last.err = "none"
       /\ \A k \in 1..Len(ret.lines) :
            ret.lines[k].num = Marginal(ResultProperty, n, last.arg.l, ret.lines[k].key)
       /\ \A key \in 0..((2 ^ Len(last.arg.l)) - 1) :
            Marginal(ResultProperty, n, last.arg.l, key) > 0
              => \E k \in 1..Len(ret.lines) : ret.lines[k].key = key

\* C21: counts() without a sub-register list (msr_list None or empty) that
\* completes prints a line for every basis index whose amplitude in the result
\* is non-zero, positive or negative, and for no other index.
C21_CountsReportsEveryNonZeroAmplitude ==
    ( /\ alive
      /\ last.op = "counts"
      /\ last.err = "none"
      /\ (last.arg.kind = "none" \/ last.arg.l = <<>>) )
    => /\ ret.kind = "counts"
       /\ \A i \in 1..Len(ResultProperty.v) :
            ResultProperty.v[i] # 0
              <=> \E k \in 1..Len(ret.lines) : ret.lines[k].key = i - 1

\* the number of binary digits of v > 0 (0 for v = 0)
OwnBitLength(v) == CHOOSE L \in 0..v : v < 2 ^ L /\ (L = 0 \/ v >= 2 ^ (L - 1))

\* the number a sequence of bits spells, most significant bit first
ValueOfBits(s) == SumTo([k \in 1..Len(s) |-> s[k] * (2 ^ (Len(s) - k))], Len(s))

\* the binary digits of v, most significant first, without leading zeros
DigitsOf(v) == CHOOSE s \in [1..OwnBitLength(v) -> {0, 1}] : ValueOfBits(s) = v

\* C22: for every number > 0 and every list of positions (repetitions allowed),
\* each in [0, bit_length(number)), extract_bits returns the bits of the number
\* at those positions, counted from its most significant bit, concatenated in
\* list order; for a single int position it returns that one bit.
C22_ExtractBitsConcatenates ==
    ( /\ ext.pc \in {"returned", "raised"}
      /\ ext.number > 0
      /\ \A k \in 1..Len(ext.list) : ext.list[k] \in 0..(OwnBitLength(ext.number) - 1) )
    => /\ ext.err = "none"
       /\ ext.val = IF ext.isInt THEN DigitsOf(ext.number)[ext.list[1] + 1]
                     ELSE ValueOfBits([k \in 1..Len(ext.list) |->
                                         DigitsOf(ext.number)[ext.list[k] + 1]])

\* extract_bits(0b1011, [3, 1, 1]) has returned 0b100
C22_Witness ==
    /\ ext.pc = "returned"
    /\ ext.number = 11
    /\ ~ext.isInt
    /\ ext.list = <<3, 1, 1>>
    /\ ext.val = 4

\* the arrays the claim names: the state vector, the identity cache and the
\* operators of the gate list
NamedArrays(o) == ({o.state, o.identity} \cup {o.gates[k] : k \in 1..Len(o.gates)}) \ {NoArray}

\* C23: for every n >= 1, n = 1 included, no array held by one circuit (its
\* state vector, its identity cache, an operator of its gate list) is the same
\* object as an array held by another circuit.
C23_NoArraySharedBetweenCircuits ==
    (heap[1].made /\ heap[2].made)
    => NamedArrays(heap[1]) \cap NamedArrays(heap[2]) = {}

\* C24: a call of _initialize_state or _initialize_circuit on an existing
\* circuit that raises leaves the gate list, the stored result, the state
\* vector and n exactly as they were before the call.
C24_FailedInitLeavesCircuitUnchanged ==
    [][ ( /\ alive
          /\ last'.op \in {"_initialize_state", "_initialize_circuit"}
          /\ last'.err # "none" )
        => ( /\ gates' = gates
             /\ result' = result
             /\ state' = state
             /\ n' = n ) ]_vars

\* C25: in every reachable state of a circuit (after construction, gate calls,
\* run, re-initialization and assignments to the public n property) the state
\* vector has length 2^n and every operator of the gate list is 2^n x 2^n; n
\* changes only through re-initialization, which also empties the gate list.
C25_SizesMatchN ==
    /\ [](alive => /\ Len(state.v) = 2 ^ n
                   /\ \A k \in 1..Len(gates) :
                        /\ Len(gates[k].m) = 2 ^ n
                        /\ \A r \in 1..Len(gates[k].m) : Len(gates[k].m[r]) = 2 ^ n)
    /\ [][(alive /\ n' # n) => (last'.op = "_initialize_state" /\ gates' = <<>>)]_vars

\* C26: each call of x, h, cx or ccx that completes appends exactly one
\* operator to the gate list, each call of or_ or swap exactly three; the call
\* leaves the initial state vector and the operators appended before it
\* unchanged, and leaves the stored result of the last run() unchanged.
C26_GateCallsOnlyAppend ==
    [][ ( /\ alive
          /\ last'.op \in {"x", "h", "cx", "ccx", "or_", "swap"}
          /\ last'.err = "none" )
        => ( /\ Len(gates') = Len(gates) + (IF last'.op \in {"or_", "swap"} THEN 3 ELSE 1)
             /\ SubSeq(gates', 1, Len(gates)) = gates
             /\ state' = state
             /\ result' = result ) ]_vars

\* or_ has completed on a circuit that holds one earlier operator and the
\* result of a run
C26_Witness ==
    /\ alive
    /\ last.op = "or_"
    /\ last.err = "none"
    /\ Len(gates) = 4
    /\ result # <<>>

\* C27: for every n, every set C of control positions and every target t not
\* in C, all in [0, n), the operator mcx builds from the identity by swapping
\* rows idx0 and idx1 for each pair of range_fixed_bits_switch(n, C, t) sends
\* every basis index to itself with bit t flipped when all bits of C are 1 and
\* to itself otherwise; for one control it is the operator cx(c, t) builds,
\* for two controls the operator ccx(c1, c2, t) builds.
C27_McxIsControlledFlip ==
    ( /\ alive
      /\ last.op = "mcx"
      /\ last.arg.i \in 0..(n - 1)
      /\ \A k \in 1..Len(last.arg.l) :
           last.arg.l[k] \in 0..(n - 1) /\ last.arg.l[k] # last.arg.i )
    => /\ last.err = "none"
       /\ Len(gates) >= 1
       /\ LET g == gates[Len(gates)]
              C == last.arg.l
              t == last.arg.i
          IN  /\ IsControlledFlip(g, n, C, t)
              /\ Len(C) = 1 => g.m = CxOutcome(identity, n, Len(state.v), C[1], t).m
              /\ Len(C) = 2 => g.m = CcxOutcome(identity, n, Len(state.v), C[1], C[2], t).m

\* mcx((0, 1), 2) has appended its operator to a 3-qubit circuit
C27_Witness ==
    /\ alive
    /\ n = 3
    /\ last.op = "mcx"
    /\ last.err = "none"
    /\ last.arg.l = <<0, 1>>
    /\ last.arg.i = 2
    /\ Len(gates) = 1

\* the pair y breaks the contract of range_fixed_bits_switch(n_bits, F, .): its
\* two indices are equal, or a bit of F is 0 in one of them, or one of them
\* lies outside [0, 2^n_bits)
BreaksPairContract(y, n_bits, F) ==
    \/ y[1] = y[2]
    \/ \E f \in F : BitBE(y[1], n_bits, f) = 0 \/ BitBE(y[2], n_bits, f) = 0
    \/ y[1] \notin 0..((2 ^ n_bits) - 1)
    \/ y[2] \notin 0..((2 ^ n_bits) - 1)

\* C28: when the switch bit is one of the fixed bits (all positions in
\* [0, n_bits)), range_fixed_bits_switch raises no error, and at least one of
\* the pairs it yields breaks the pair contract.
C28_SwitchAmongFixedYieldsInconsistentPairs ==
    ( /\ gen.fn = "range_fixed_bits_switch"
      /\ gen.pc # "created"
      /\ gen.switch_bit \in gen.fixed_bits
      /\ gen.fixed_bits \subseteq 0..(gen.n_bits - 1) )
    => /\ gen.pc \in {"suspended", "done"}
       /\ gen.error = "none"
       /\ \E k \in 1..Len(gen.yielded) :
            BreaksPairContract(gen.yielded[k], gen.n_bits, gen.fixed_bits)

\* range_fixed_bits_switch(3, {0}, 0) has run to its end and yielded (8, 8), (9, 9)
C28_Witness ==
    /\ gen.fn = "range_fixed_bits_switch"
    /\ gen.pc = "done"
    /\ gen.n_bits = 3
    /\ gen.fixed_bits = {0}
    /\ gen.switch_bit = 0
    /\ gen.yielded = <<<<8, 8>>, <<9, 9>>>>

\* the vector x has exactly one entry equal to 1 and every other entry 0
IsBasisState(x) ==
    \E i \in 1..Len(x.v) :
        /\ x.v[i] > 0
        /\ x.v[i] * x.v[i] = 2 ^ x.e
        /\ \A j \in 1..Len(x.v) : j # i => x.v[j] = 0

\* C29: for a circuit initialized by an int or a binary string, after any
\* sequence of x, cx, ccx, or_ and swap calls with in-range, pairwise distinct
\* positions, run() raises nothing and returns a vector with exactly one entry
\* equal to 1 and every other entry equal to 0.
C29_ClassicalGatesKeepBasisState ==
    ( /\ alive
      /\ sim >= 0
      /\ last.op = "run" )
    => /\ last.err = "none"
       /\ result # <<>>
       /\ Len(ResultProperty.v) = 2 ^ n
       /\ IsBasisState(ResultProperty)

\* QCLCircuit("10"), swap(0, 1), run(): the result is the basis state 01
C29_Witness ==
    /\ alive
    /\ n = 2
    /\ sim = 1
    /\ last.op = "run"
    /\ Len(gates) = 3
    /\ result = <<[e |-> 0, v |-> <<0, 1, 0, 0>>]>>

\* the number of entries of the protocol's list for ev that are agent a's
\* current callback list
TimesRegistered(a, ev) ==
    Cardinality({k \in 1..Len(prot.events[ev]) :
                   prot.events[ev][k].live /\ prot.events[ev][k].agent = a})

\* C30: after any sequence of add_agent, start, stop, Agent.add_event and
\* Agent.set_events, stop() completes without raising and leaves the protocol
\* not running with no callback list registered for any event; while the
\* protocol is running, the callback list of each participating agent is
\* registered exactly once for each event.
C30_StopUnregistersEveryAgent ==
    /\ prot.last.op = "stop"
         => /\ prot.last.err = "none"
            /\ ~prot.running
            /\ \A ev \in EventNames : prot.events[ev] = <<>>
    /\ prot.running
         => \A a \in prot.agents : \A ev \in EventNames : TimesRegistered(a, ev) = 1

====
